---- MODULE Spec2Model ----
(***************************************************************************)
(* Client-side state machines of the Odonto Sinditur clients:              *)
(*   - the notification feed of the admin Layout (Layout.tsx),              *)
(*   - the admin AuthProvider (contexts/AuthContext) and Layout.handleLogout*)
(*   - the mobile AuthGuard (app/_layout.tsx),                              *)
(*   - the doctor <-> logged-in user matching of Agenda and Estoque.        *)
(*   - the real-time channel and its subscribers: Layout, Dashboard and     *)
(*     Agenda, with the requests of Agenda in flight,                       *)
(*   - the forms and writes of Estoque, Equipe and Agenda,                  *)
(*   - the menu of the admin Layout and the statistics of Dashboard.       *)
(* Each subsystem has its own specification over the shared variables.     *)
(***************************************************************************)
EXTENDS Integers, Sequences, FiniteSets, TLC

VARIABLES
    \* ---- admin Layout (Layout.tsx) ----
    notifications,      \* useState<any[]>([])            Layout.tsx:12
    showNotifications,  \* useState(false)                Layout.tsx:13
    now,                \* the wall clock read by Date.now() / new Date()
    \* ---- admin AuthProvider (contexts/AuthContext) ----
    storage,            \* localStorage: the items admin_token and admin_user
    user,               \* useState<User | null>(null); in SpecGuard the user of the mobile useAuth()
    loading,            \* useState(true)
    crashed,            \* the mount effect threw (JSON.parse) and the tree was torn down
    pending,            \* authAPI.login calls in flight
    location,           \* the current route of the admin router
    \* ---- mobile AuthGuard (app/_layout.tsx) ----
    isLoading,          \* isLoading of the mobile useAuth()
    segments,           \* useSegments()[0]
    effectPending,      \* the redirect effect is scheduled (a dependency changed)
    pendingNav,         \* target of a router.replace not yet committed
    \* ---- Agenda / Estoque doctor matching ----
    doctors,            \* the doctor list returned by doctorsAPI.getAll()
    myDoctorId,         \* Agenda: useState<string | null>(null)
    currentDoctor,      \* Estoque: useState<any>(null)
    \* ---- real-time client (services/socket) ----
    listeners,          \* event name -> the handlers registered with socketService.on
    socketOpen,         \* connect() was called and disconnect() was not
    socketUp,           \* the connection is established: what isConnected() returns
    \* ---- admin Layout: mount effect (Layout.tsx:17-88) ----
    layoutMounted,      \* a Layout instance is mounted
    connected,          \* useState(false)                Layout.tsx:14
    interval,           \* the setInterval timer of the mount effect is running
    \* ---- Dashboard (Dashboard.tsx:7-91) ----
    dashMounted,        \* a Dashboard instance is mounted
    statsPending,       \* loadStats calls whose Promise.all has not settled
    stats,              \* useState({ todayAppointments: 0, ... })  Dashboard.tsx:8-13
    dashLoading,        \* useState(true)                 Dashboard.tsx:14
    \* ---- Agenda (Agenda.tsx) ----
    agendaMounted,      \* an Agenda instance is mounted
    filter,             \* useState('todos')              Agenda.tsx:14
    selectedUnit,       \* useState('')                   Agenda.tsx:15
    showAllDates,       \* useState(false)                Agenda.tsx:16
    appointments,       \* useState<any[]>([]): the response it was last set to
    agendaLoading,      \* useState(true)                 Agenda.tsx:13
    requests,           \* appointmentsAPI.getAll calls in flight, in order of issue
    issued,             \* number of appointmentsAPI.getAll calls issued so far
    lookupPending,      \* the doctorsAPI.getAll call of the mount effect is in flight
    subscribed,         \* what the handlers of the last run of the subscription effect captured
    \* ---- writes of the admin screens ----
    writes,             \* write requests (create, update, delete, movement) in flight
    estoque,            \* the state of the Estoque screen (Dashboard.tsx:102-115)
    equipe,             \* the state of the Equipe screen
    \* ---- history variables (not program state) ----
    arrivals,           \* every entry created since the list was last emptied, newest first
    delivered,          \* number of real-time events delivered one at a time so far
    ticks,              \* number of clock ticks taken between handlers so far
    steps,              \* number of user / backend steps taken so far
    atNavigate,         \* what localStorage held when navigate() was last called
    redirect,           \* the router.replace target issued by the last run of the redirect effect
    before,             \* the state the last handler started from
    last                \* name of the handler that ran last

layoutState == <<notifications, showNotifications, now, arrivals, delivered, ticks>>

authState == <<storage, loading, crashed, pending, location, atNavigate>>

guardState == <<isLoading, segments, effectPending, pendingNav, redirect>>

matchState == <<doctors, myDoctorId, currentDoctor>>

socketState == <<listeners, socketOpen, socketUp>>

shellState == <<layoutMounted, connected, interval>>

dashState == <<dashMounted, statsPending, stats, dashLoading>>

agendaState ==
    <<agendaMounted, filter, selectedUnit, showAllDates, appointments, agendaLoading,
      requests, issued, lookupPending, subscribed>>

formsState == <<writes, estoque, equipe>>

adminState == <<socketState, shellState, dashState, agendaState, formsState>>

\* what the screens of the admin client never touch
outside == <<authState, guardState, user, steps>>

\* the part of the feed state the real-time handlers leave alone
feedRest == <<showNotifications, now, arrivals, ticks>>

vars ==
    <<layoutState, authState, guardState, matchState, adminState, user, steps, before, last>>

\* ------------------------------------------------------------------------
\* Bounds of the exploration
\* ------------------------------------------------------------------------
MaxEvents == 2      \* single real-time events delivered one at a time
BurstLen == 49      \* length of the one burst of back-to-back events
MaxClock == 1       \* clock ticks taken between handlers (outside the burst)
MaxSteps == 4       \* user and backend steps (login, logout, navigation) of a run
MaxPending == 2     \* calls in flight at the same time: logins; writes and loads of a page
MaxDoctors == 2     \* length of the doctor list the backend returns
MaxRequests == 2    \* appointmentsAPI.getAll calls the user's actions start in a run
MaxQuantity == 2    \* largest quantity the movement form is given

\* payload of the n-th single event (patient_name, date, ... as one value); the
\* events of the burst carry payload 0
Payload(n) == n

\* null, for a user or a doctor record
Null == [null |-> TRUE]

\* undefined, for a record
Undefined == [undefined |-> TRUE]

\* localStorage.getItem of an item that is not there (a stored text is a tuple)
NoItem == <<>>

\* the subsystems a specification leaves alone
AuthIdle ==
    /\ storage = [admin_token |-> NoItem, admin_user |-> NoItem]
    /\ loading = TRUE
    /\ crashed = FALSE
    /\ pending = 0
    /\ location = "/"
    /\ atNavigate = Null

GuardIdle ==
    /\ isLoading = TRUE
    /\ segments = "index"
    /\ effectPending = FALSE
    /\ pendingNav = "none"
    /\ redirect = "none"

MatchIdle ==
    /\ doctors = <<>>
    /\ myDoctorId = "null"
    /\ currentDoctor = Null

\* the screens of the admin client before any of them is mounted
\* no appointment list has arrived yet: useState<any[]>([])
NoAppointments == [seq |-> 0, params |-> Null]

SocketIdle ==
    /\ listeners = [e \in {"new_appointment", "new_patient", "appointment_cancelled",
                           "appointment_updated"} |-> <<>>]
    /\ socketOpen = FALSE
    /\ socketUp = FALSE

ShellIdle ==
    /\ layoutMounted = FALSE
    /\ connected = FALSE
    /\ interval = FALSE

\* useState({ todayAppointments: 0, monthRevenue: 0, totalPatients: 0, lowStockItems: 0 })
NoStats == [todayAppointments |-> 0, monthRevenue |-> 0, totalPatients |-> 0, lowStockItems |-> 0]

DashIdle ==
    /\ dashMounted = FALSE
    /\ statsPending = 0
    /\ stats = NoStats
    /\ dashLoading = TRUE

AgendaIdle ==
    /\ agendaMounted = FALSE
    /\ filter = "todos"
    /\ selectedUnit = ""
    /\ showAllDates = FALSE
    /\ appointments = NoAppointments
    /\ agendaLoading = TRUE
    /\ requests = <<>>
    /\ issued = 0
    /\ lookupPending = FALSE
    /\ subscribed = Null

\* useState({ name: '', quantity: 0, unit: 'unidade', min_quantity: 0 })
BlankItem == [name |-> "", quantity |-> 0, unit |-> "unidade", min_quantity |-> 0]

\* useState({ item_id: '', quantity: 1, notes: '' })
BlankMovement == [item_id |-> "", quantity |-> 1, notes |-> ""]

\* the useState values of Estoque; loads counts the loadData calls in flight
EstoqueIdle ==
    [mounted |-> FALSE, items |-> <<>>, loading |-> TRUE, showAddModal |-> FALSE,
     showMovementModal |-> FALSE, movementType |-> "entrada", newItem |-> BlankItem,
     newMovement |-> BlankMovement, loads |-> 0]

\* placeholder of the Equipe screen before it is mounted
EquipeIdle == [mounted |-> FALSE]

AdminIdle ==
    /\ SocketIdle
    /\ ShellIdle
    /\ DashIdle
    /\ AgendaIdle
    /\ writes = <<>>
    /\ estoque = EstoqueIdle
    /\ equipe = EquipeIdle

\* ------------------------------------------------------------------------
\* Layout.tsx: notification feed
\* ------------------------------------------------------------------------
\* the cap of the feed: [notif, ...prev.slice(0, 49)] holds at most 50 entries
SliceEnd == 49

Min(a, b) == IF a < b THEN a ELSE b

\* Array.prototype.slice(0, end)
Slice0(arr, end) == SubSeq(arr, 1, Min(end, Len(arr)))

EventTypes == {"new_appointment", "new_patient", "appointment_cancelled", "appointment_updated"}

Title(type) ==
    CASE type = "new_appointment" -> "Novo Agendamento"
      [] type = "new_patient" -> "Novo Paciente"
      [] type = "appointment_cancelled" -> "Agendamento Cancelado"
      [] type = "appointment_updated" -> "Agendamento Atualizado"

\* the template string of each handler, applied to the payload
Message(type, data) ==
    CASE type = "new_appointment" -> <<data, "agendou", "com", "em", "as">>
      [] type = "new_patient" -> <<data, "se cadastrou no app">>
      [] type = "appointment_cancelled" -> <<data, "cancelou o agendamento de">>
      [] type = "appointment_updated" -> <<"Agendamento de", data, "foi marcado como">>

\* const notif = { id: Date.now(), type, title, message, timestamp: new Date(), read: false }
NotifReadIfOpen(type, data, clock) ==
    [id |-> clock, type |-> type, title |-> Title(type),
     message |-> Message(type, data), timestamp |-> clock, read |-> showNotifications]

\* const notif = { id: Date.now(), type, title, message, timestamp: new Date(), read: false }
Notif(type, data, clock) ==
    [id |-> clock, type |-> type, title |-> Title(type),
     message |-> Message(type, data), timestamp |-> clock, read |-> FALSE]

PushWrongCap(prev, notif) == <<notif>> \o Slice0(prev, SliceEnd + 1)

\* setNotifications(prev => [notif, ...prev.slice(0, 49)])
Push(prev, notif) == <<notif>> \o Slice0(prev, SliceEnd)

MarkReadSkipsFirst(prev) ==
    [i \in 1..Len(prev) |-> IF i = 1 THEN prev[i] ELSE [prev[i] EXCEPT !.read = TRUE]]

\* prev.map(n => ({ ...n, read: true }))
MarkRead(prev) == [i \in 1..Len(prev) |-> [prev[i] EXCEPT !.read = TRUE]]

ClearKeepsUnread(prev) == SelectSeq(prev, LAMBDA n : ~n.read)

\* setNotifications([]) of the 'Limpar' button
Clear(prev) == <<>>

\* const unreadCount = notifications.filter(n => !n.read).length
unreadCount == Len(SelectSeq(notifications, LAMBDA n : ~n.read))

\* the body shared by the four socketService.on(...) handlers
OnEvent(type) ==
    /\ delivered < MaxEvents
    /\ delivered' = delivered + 1
    /\ LET notif == Notif(type, Payload(delivered + 1), now)
       IN  /\ notifications' = Push(notifications, notif)
           /\ arrivals' = <<notif>> \o arrivals
    /\ before' = notifications
    /\ last' = type
    /\ UNCHANGED <<showNotifications, now, ticks>>
    /\ UNCHANGED <<authState, guardState, matchState, user, steps, adminState>>

on_new_appointment == OnEvent("new_appointment")

on_new_patient == OnEvent("new_patient")

on_appointment_cancelled == OnEvent("appointment_cancelled")

on_appointment_updated == OnEvent("appointment_updated")

\* the new_appointment handler run k times, one event per millisecond from clock c
RECURSIVE Deliver(_, _, _, _)
Deliver(list, k, c, data) ==
    LET next == Push(list, Notif("new_appointment", data, c))
    IN  IF k = 0 THEN list
        ELSE IF Len(next) > 0 THEN Deliver(next, k - 1, c + 1, data) ELSE next

RECURSIVE History(_, _, _, _)
History(list, k, c, data) ==
    LET next == <<Notif("new_appointment", data, c)>> \o list
    IN  IF k = 0 THEN list
        ELSE IF Len(next) > 0 THEN History(next, k - 1, c + 1, data) ELSE next

\* BurstLen new_appointment events handled back to back (once, on a fresh feed)
Burst ==
    /\ arrivals = <<>>
    /\ last = "mount"
    /\ notifications' = Deliver(notifications, BurstLen, now, Payload(0))
    /\ arrivals' = History(arrivals, BurstLen, now, Payload(0))
    /\ now' = now + BurstLen - 1
    /\ before' = notifications
    /\ last' = "burst"
    /\ UNCHANGED <<showNotifications, delivered, ticks>>
    /\ UNCHANGED <<authState, guardState, matchState, user, steps, adminState>>

\* onClick of the notification bell (Layout.tsx:211)
BellClick ==
    /\ showNotifications' = ~showNotifications
    /\ IF ~showNotifications
       THEN /\ notifications' = MarkRead(notifications)
            /\ last' = "markAllRead"
       ELSE /\ notifications' = notifications
            /\ last' = "closeBell"
    /\ before' = notifications
    /\ UNCHANGED <<now, arrivals, delivered, ticks>>
    /\ UNCHANGED <<authState, guardState, matchState, user, steps, adminState>>

\* onClick of 'Limpar', rendered only in the open dropdown of a non-empty list
Limpar ==
    /\ showNotifications
    /\ Len(notifications) > 0
    /\ notifications' = Clear(notifications)
    /\ arrivals' = <<>>
    /\ before' = notifications
    /\ last' = "clear"
    /\ UNCHANGED <<showNotifications, now, delivered, ticks>>
    /\ UNCHANGED <<authState, guardState, matchState, user, steps, adminState>>

\* the clock advances between two handlers
Tick ==
    /\ ticks < MaxClock
    /\ ticks' = ticks + 1
    /\ now' = now + 1
    /\ last' = "tick"
    /\ UNCHANGED <<notifications, showNotifications, arrivals, delivered, before>>
    /\ UNCHANGED <<authState, guardState, matchState, user, steps, adminState>>

LayoutMounted ==
    /\ notifications = <<>>
    /\ showNotifications = FALSE
    /\ now = 0
    /\ arrivals = <<>>
    /\ delivered = 0
    /\ ticks = 0

InitLayout ==
    /\ LayoutMounted
    /\ AdminIdle
    /\ AuthIdle
    /\ GuardIdle
    /\ MatchIdle
    /\ user = Null
    /\ steps = 0
    /\ before = <<>>
    /\ last = "mount"

NextLayout ==
    \/ on_new_appointment
    \/ on_new_patient
    \/ on_appointment_cancelled
    \/ on_appointment_updated
    \/ Burst
    \/ BellClick
    \/ Limpar
    \/ Tick

SpecLayout == InitLayout /\ [][NextLayout]_vars

\* the fields of an entry that only its creation sets
SameEntry(a, b) ==
    /\ a.id = b.id
    /\ a.type = b.type
    /\ a.title = b.title
    /\ a.message = b.message
    /\ a.timestamp = b.timestamp

\* C1: the feed never holds more than 50 entries and is most-recent-first: it is
\* the newest min(50, n) of the n entries created since it was last emptied, in
\* order of arrival, so each event adds one entry at the front and the entry
\* that is dropped at the cap is the oldest one.
FeedCappedNewestFirst ==
    /\ Len(notifications) <= 50
    /\ Len(notifications) = Min(50, Len(arrivals))
    /\ \A i \in 1..Len(notifications) : SameEntry(notifications[i], arrivals[i])
    /\ \A i \in 1..Len(notifications) : \A j \in i..Len(notifications) :
          notifications[i].timestamp >= notifications[j].timestamp
    /\ last \in EventTypes =>
          /\ Len(notifications) = Min(50, Len(before) + 1)
          /\ notifications[1].type = last
          /\ ~notifications[1].read
          /\ \A i \in 2..Len(notifications) : notifications[i] = before[i - 1]

\* C1 witness: an event arrived on a full feed and the oldest entry was dropped
FeedEvictedOldest ==
    /\ last \in EventTypes
    /\ Len(before) = 50
    /\ Len(notifications) = 50
    /\ Len(arrivals) > 50
    /\ notifications[50] = before[49]

\* C2: markAllRead leaves no unread entry and keeps the number, the order and
\* the id, type and message of the entries.
MarkAllReadClearsUnread ==
    last = "markAllRead" =>
        /\ unreadCount = 0
        /\ Len(notifications) = Len(before)
        /\ \A i \in 1..Len(notifications) :
              /\ notifications[i].id = before[i].id
              /\ notifications[i].type = before[i].type
              /\ notifications[i].message = before[i].message

\* C2 witness: markAllRead ran on a list holding both read and unread entries
MarkAllReadOnMixedList ==
    /\ last = "markAllRead"
    /\ Len(before) >= 3
    /\ \E i \in 1..Len(before) : ~before[i].read
    /\ \E i \in 1..Len(before) : before[i].read

\* C3: the 'Limpar' action leaves the list empty whatever it held, and the
\* same update applied to that empty list gives the empty list again.
LimparEmptiesList ==
    last = "clear" =>
        /\ notifications = <<>>
        /\ Clear(notifications) = notifications
        /\ Clear(Clear(before)) = Clear(before)

\* C3 witness: 'Limpar' ran on a list holding read and unread entries
LimparOnFilledList ==
    /\ last = "clear"
    /\ Len(before) >= 2
    /\ \E i \in 1..Len(before) : ~before[i].read

\* ------------------------------------------------------------------------
\* contexts/AuthContext (admin): AuthProvider, and Layout.handleLogout
\* ------------------------------------------------------------------------
\* access tokens the backend hands out
Tokens == {<<"tok1">>, <<"tok2">>}

\* user records the backend hands out (interface User: name and email are strings)
AuthUsers ==
    { [email |-> "a@x.com", name |-> "Ana", role |-> "doctor", permissions |-> {"agenda"}],
      [email |-> "b@x.com", name |-> "Bia", role |-> "admin", permissions |-> {"all"}] }

\* routes of the admin router
Paths == {"/", "/login", "/agenda"}

\* JSON.stringify(userData): the text of the record
JSONstringify(u) == <<"json", u>>

\* a stored admin_user text that is not JSON
NotJSON == <<"not json">>

\* JSON.parse(text) returns the record when the text is JSON, and throws otherwise
JSONparses(text) == Len(text) = 2 /\ text[1] = "json"

JSONparse(text) == text[2]

\* what localStorage may hold when the provider mounts
StoredTokens == {NoItem} \cup Tokens

StoredUsers == {NoItem, NotJSON} \cup {JSONstringify(u) : u \in AuthUsers}

\* truthiness of a value read from localStorage (null is falsy)
Truthy(item) == item # NoItem

MountEffectNoRestore(st) == [st EXCEPT !.loading = FALSE]

\* the useEffect(() => {...}, []) of AuthProvider
MountEffect(st) ==
    LET token == st.storage.admin_token
        savedUser == st.storage.admin_user
    IN  IF Truthy(token) /\ Truthy(savedUser)
        THEN IF JSONparses(savedUser)
             THEN [st EXCEPT !.user = JSONparse(savedUser), !.loading = FALSE]
             ELSE [st EXCEPT !.crashed = TRUE]
        ELSE [st EXCEPT !.loading = FALSE]

LoginThenTokenOnly(st, data) ==
    [st EXCEPT !.storage = [admin_token |-> data.access_token,
                            admin_user |-> st.storage.admin_user],
               !.user = data.user]

LoginThenNoSetUser(st, data) ==
    [st EXCEPT !.storage = [admin_token |-> data.access_token,
                            admin_user |-> JSONstringify(data.user)]]

\* login, after await authAPI.login(email, password) returned response.data
LoginThen(st, data) ==
    [st EXCEPT !.storage = [admin_token |-> data.access_token,
                            admin_user |-> JSONstringify(data.user)],
               !.user = data.user]

LogoutKeepsUserItem(st) ==
    [st EXCEPT !.storage = [admin_token |-> NoItem, admin_user |-> st.storage.admin_user],
               !.user = Null]

\* logout
Logout(st) ==
    [st EXCEPT !.storage = [admin_token |-> NoItem, admin_user |-> NoItem],
               !.user = Null]

\* the provider's state as one record
Session == [storage |-> storage, user |-> user, loading |-> loading, crashed |-> crashed]

SetSession(st) ==
    /\ storage' = st.storage
    /\ user' = st.user
    /\ loading' = st.loading
    /\ crashed' = st.crashed

\* the mount effect runs once, after the first render
AuthMount ==
    /\ loading
    /\ ~crashed
    /\ SetSession(MountEffect(Session))
    /\ before' = [storage |-> storage, user |-> user, loading |-> loading,
                  crashed |-> crashed,
                  restarted |-> IF last = "restart" THEN before ELSE Null]
    /\ last' = "authMount"
    /\ UNCHANGED <<pending, location, atNavigate, steps>>
    /\ UNCHANGED <<layoutState, guardState, matchState, adminState>>

\* login(email, password) is called: the request is in flight
LoginCall ==
    /\ ~loading
    /\ ~crashed
    /\ steps < MaxSteps
    /\ pending < MaxPending
    /\ pending' = pending + 1
    /\ steps' = steps + 1
    /\ before' = Session
    /\ last' = "loginCall"
    /\ UNCHANGED <<storage, user, loading, crashed, location, atNavigate>>
    /\ UNCHANGED <<layoutState, guardState, matchState, adminState>>

\* authAPI.login resolves
LoginOk ==
    /\ pending > 0
    /\ \E t \in Tokens, u \in AuthUsers :
        LET data == [access_token |-> t, user |-> u]
        IN  /\ SetSession(LoginThen(Session, data))
            /\ before' = [storage |-> storage, user |-> user, loading |-> loading,
                          crashed |-> crashed, data |-> data]
    /\ pending' = pending - 1
    /\ last' = "loginOk"
    /\ UNCHANGED <<location, atNavigate, steps>>
    /\ UNCHANGED <<layoutState, guardState, matchState, adminState>>

\* authAPI.login rejects: login throws at the await
LoginFail ==
    /\ pending > 0
    /\ pending' = pending - 1
    /\ before' = Session
    /\ last' = "loginFail"
    /\ UNCHANGED <<storage, user, loading, crashed, location, atNavigate, steps>>
    /\ UNCHANGED <<layoutState, guardState, matchState, adminState>>

\* Layout.handleLogout: logout(), then navigate('/login')
HandleLogout ==
    /\ ~loading
    /\ ~crashed
    /\ steps < MaxSteps
    /\ LET st == Logout(Session)
       IN  /\ SetSession(st)
           /\ atNavigate' = [to |-> "/login", storage |-> st.storage]
    /\ location' = "/login"
    /\ steps' = steps + 1
    /\ before' = Session
    /\ last' = "handleLogout"
    /\ UNCHANGED pending
    /\ UNCHANGED <<layoutState, guardState, matchState, adminState>>

\* the user follows a link of the admin router
Navigate ==
    /\ ~crashed
    /\ steps < MaxSteps
    /\ \E p \in Paths \ {location} : location' = p
    /\ steps' = steps + 1
    /\ before' = Session
    /\ last' = "navigate"
    /\ UNCHANGED <<storage, user, loading, crashed, pending, atNavigate>>
    /\ UNCHANGED <<layoutState, guardState, matchState, adminState>>

RestartClearsStorage(st) ==
    [st EXCEPT !.storage = [admin_token |-> NoItem, admin_user |-> NoItem],
               !.user = Null, !.loading = TRUE, !.crashed = FALSE]

\* the page is loaded again: a new AuthProvider with its useState values, over the
\* localStorage the last one left
RestartSession(st) == [st EXCEPT !.user = Null, !.loading = TRUE, !.crashed = FALSE]

\* the restart of the admin client; the calls of the old page are gone with it
Restart ==
    /\ steps < MaxSteps
    /\ SetSession(RestartSession(Session))
    /\ pending' = 0
    /\ steps' = steps + 1
    /\ before' = [storage |-> storage, user |-> user, loading |-> loading,
                  crashed |-> crashed, after |-> last]
    /\ last' = "restart"
    /\ UNCHANGED <<location, atNavigate>>
    /\ UNCHANGED <<layoutState, guardState, matchState, adminState>>

InitAuth ==
    /\ storage \in [admin_token : StoredTokens, admin_user : StoredUsers]
    /\ user = Null
    /\ loading = TRUE
    /\ crashed = FALSE
    /\ pending = 0
    /\ location \in Paths
    /\ atNavigate = Null
    /\ LayoutMounted
    /\ AdminIdle
    /\ GuardIdle
    /\ MatchIdle
    /\ steps = 0
    /\ before = <<>>
    /\ last = "start"

NextAuth ==
    \/ AuthMount
    \/ LoginCall
    \/ LoginOk
    \/ LoginFail
    \/ HandleLogout
    \/ Navigate
    \/ Restart

SpecAuth == InitAuth /\ [][NextAuth]_vars

\* C4: when the provider starts, the session resolves to unauthenticated if no
\* token is persisted and to authenticated with the persisted user record if a
\* token and a user record are persisted; the result is the same at every route.
SessionResolvesFromStorage ==
    last = "authMount" =>
        /\ storage = before.storage
        /\ storage.admin_token = NoItem => (user = Null /\ loading = FALSE)
        /\ \A u \in AuthUsers :
              (storage.admin_token \in Tokens /\ storage.admin_user = JSONstringify(u))
                  => (user = u /\ loading = FALSE)

\* C4 witness: the provider started over a persisted token and user record, away
\* from the login route
ResolvedAuthenticated ==
    /\ last = "authMount"
    /\ storage.admin_token \in Tokens
    /\ user \in AuthUsers
    /\ ~loading
    /\ location = "/agenda"

\* C5: a successful login stores the returned token and user record and makes
\* that record the current user; a failed login changes neither the session
\* state nor local storage.
LoginStoresSession ==
    /\ last = "loginOk" =>
          /\ storage.admin_token = before.data.access_token
          /\ storage.admin_user = JSONstringify(before.data.user)
          /\ user = before.data.user
          /\ loading = before.loading
    /\ last = "loginFail" =>
          /\ storage = before.storage
          /\ user = before.user
          /\ loading = before.loading

\* C5 witness: a login succeeded for a session that was unauthenticated
LoggedInFromUnauthenticated ==
    /\ last = "loginOk"
    /\ before.user = Null
    /\ before.storage.admin_token = NoItem
    /\ user \in AuthUsers

\* C6: from an authenticated state, logout removes the persisted token and user
\* record and sets the user to null, and handleLogout has done so when it
\* navigates to /login.
LogoutClearsSession ==
    (last = "handleLogout" /\ before.user # Null) =>
        /\ storage.admin_token = NoItem
        /\ storage.admin_user = NoItem
        /\ user = Null
        /\ location = "/login"
        /\ atNavigate.to = "/login"
        /\ atNavigate.storage = [admin_token |-> NoItem, admin_user |-> NoItem]

\* C6 witness: handleLogout ran for a logged-in user with both items persisted
LoggedOutFromAuthenticated ==
    /\ last = "handleLogout"
    /\ before.user \in AuthUsers
    /\ before.storage.admin_token \in Tokens
    /\ before.storage.admin_user # NoItem

\* C17: the persisted session round trip: the provider that starts right after the
\* restart that follows a successful login resolves to that login's user; the one
\* that starts after a logout and a restart resolves to no user. An authenticated
\* session always has its own record persisted, so the same holds for every restart
\* of an authenticated session. localStorage changes only in a login (both items
\* written) and in a logout (both items removed), and only the start reads it: the
\* user changes only at a restart, at the start, in a login (to the record of the
\* response) and in a logout.
SessionRoundTrip ==
    /\ [](last = "authMount" /\ before.restarted # Null =>
            /\ before.restarted.after = "loginOk" =>
                  /\ user = before.restarted.user
                  /\ user \in AuthUsers
                  /\ ~loading
            /\ before.restarted.user # Null => (user = before.restarted.user /\ ~loading)
            /\ before.restarted.after = "handleLogout" => (user = Null /\ ~loading))
    /\ [](user # Null =>
            (Truthy(storage.admin_token) /\ storage.admin_user = JSONstringify(user)))
    /\ [][ /\ storage' # storage => last' \in {"loginOk", "handleLogout"}
           /\ (last' = "loginOk" /\ storage' # storage) =>
                 (Truthy(storage'.admin_token) /\ Truthy(storage'.admin_user))
           /\ (last' = "handleLogout" /\ storage' # storage) =>
                 storage' = [admin_token |-> NoItem, admin_user |-> NoItem]
           /\ user' # user => last' \in {"restart", "authMount", "loginOk", "handleLogout"}
           /\ (last' = "loginOk" /\ user' # user) => user' = before'.data.user ]_vars

\* C17 witness: a login succeeded for an unauthenticated session with nothing
\* persisted, the client restarted, and the new provider resolved to the user of
\* that login
RestoredAfterRestart ==
    /\ last = "authMount"
    /\ before.restarted # Null
    /\ before.restarted.after = "loginOk"
    /\ before.restarted.user \in AuthUsers
    /\ user = before.restarted.user
    /\ storage.admin_user = JSONstringify(user)
    /\ ~loading

\* ------------------------------------------------------------------------
\* app/_layout.tsx (mobile): AuthGuard
\* ------------------------------------------------------------------------
\* segments[0] of the current location: the two route groups and the index route
Segments == {"(auth)", "(tabs)", "index"}

\* the patient the mobile session may hold
MobileUsers ==
    { [email |-> "p@x.com", name |-> "Paula", role |-> "patient", permissions |-> {}] }

\* the first segment of the location router.replace(target) leads to
SegmentOf(target) == IF target = "/(auth)/login" THEN "(auth)" ELSE "(tabs)"

RedirectTargetNoLoadingCheck(u, l, s) ==
    LET inAuthGroup == s = "(auth)"
    IN  IF u = Null /\ ~inAuthGroup THEN "/(auth)/login"
        ELSE IF u # Null /\ inAuthGroup THEN "/(tabs)"
        ELSE "none"

\* the body of the redirect effect: the router.replace target, or none
RedirectTarget(u, l, s) ==
    LET inAuthGroup == s = "(auth)"
    IN  IF l THEN "none"
        ELSE IF u = Null /\ ~inAuthGroup THEN "/(auth)/login"
        ELSE IF u # Null /\ inAuthGroup THEN "/(tabs)"
        ELSE "none"

EffectDepsNoSegments(u, l, s) == <<u, l>>

\* the dependency list of the redirect effect: [user, isLoading, segments]
EffectDeps(u, l, s) == <<u, l, s>>

\* what AuthGuard renders
AuthGuardView == IF isLoading THEN "ActivityIndicator" ELSE "children"

\* a render with a changed dependency schedules the effect; React runs a
\* scheduled effect before it renders again, so every render waits for it
Render(u, l, s) ==
    /\ user' = u
    /\ isLoading' = l
    /\ segments' = s
    /\ effectPending' =
          (effectPending \/ EffectDeps(u, l, s) # EffectDeps(user, isLoading, segments))

\* the mobile session leaves the unknown state
SessionResolved ==
    /\ isLoading
    /\ ~effectPending
    /\ \E u \in {Null} \cup MobileUsers : Render(u, FALSE, segments)
    /\ before' = [user |-> user, isLoading |-> isLoading, segments |-> segments]
    /\ last' = "resolved"
    /\ UNCHANGED <<pendingNav, redirect, steps>>
    /\ UNCHANGED <<layoutState, authState, matchState, adminState>>

\* a successful login on the mobile client
MobileLogin ==
    /\ ~isLoading
    /\ ~effectPending
    /\ user = Null
    /\ steps < MaxSteps
    /\ \E u \in MobileUsers : Render(u, isLoading, segments)
    /\ steps' = steps + 1
    /\ before' = [user |-> user, isLoading |-> isLoading, segments |-> segments]
    /\ last' = "login"
    /\ UNCHANGED <<pendingNav, redirect>>
    /\ UNCHANGED <<layoutState, authState, matchState, adminState>>

\* CardScreen.handleLogout, confirmed: await logout()
MobileLogout ==
    /\ ~isLoading
    /\ ~effectPending
    /\ user # Null
    /\ steps < MaxSteps
    /\ Render(Null, isLoading, segments)
    /\ steps' = steps + 1
    /\ before' = [user |-> user, isLoading |-> isLoading, segments |-> segments]
    /\ last' = "logout"
    /\ UNCHANGED <<pendingNav, redirect>>
    /\ UNCHANGED <<layoutState, authState, matchState, adminState>>

\* the location changes (a link, the back button, a deep link)
NavigateTo ==
    /\ ~effectPending
    /\ steps < MaxSteps
    /\ \E s \in Segments \ {segments} : Render(user, isLoading, s)
    /\ steps' = steps + 1
    /\ before' = [user |-> user, isLoading |-> isLoading, segments |-> segments]
    /\ last' = "navigate"
    /\ UNCHANGED <<pendingNav, redirect>>
    /\ UNCHANGED <<layoutState, authState, matchState, adminState>>

\* the redirect effect runs
RunEffect ==
    /\ effectPending
    /\ effectPending' = FALSE
    /\ redirect' = RedirectTarget(user, isLoading, segments)
    /\ pendingNav' = IF redirect' # "none" THEN redirect' ELSE pendingNav
    /\ before' = [user |-> user, isLoading |-> isLoading, segments |-> segments]
    /\ last' = "effect"
    /\ UNCHANGED <<user, isLoading, segments, steps>>
    /\ UNCHANGED <<layoutState, authState, matchState, adminState>>

\* the router commits the replace issued by the effect
ReplaceCommit ==
    /\ pendingNav # "none"
    /\ ~effectPending
    /\ Render(user, isLoading, SegmentOf(pendingNav))
    /\ pendingNav' = "none"
    /\ before' = [user |-> user, isLoading |-> isLoading, segments |-> segments]
    /\ last' = "commit"
    /\ UNCHANGED <<redirect, steps>>
    /\ UNCHANGED <<layoutState, authState, matchState, adminState>>

InitGuard ==
    /\ user = Null
    /\ isLoading = TRUE
    /\ segments \in Segments
    /\ effectPending = TRUE
    /\ pendingNav = "none"
    /\ redirect = "none"
    /\ LayoutMounted
    /\ AdminIdle
    /\ AuthIdle
    /\ MatchIdle
    /\ steps = 0
    /\ before = <<>>
    /\ last = "start"

NextGuard ==
    \/ SessionResolved
    \/ MobileLogin
    \/ MobileLogout
    \/ NavigateTo
    \/ RunEffect
    \/ ReplaceCommit

SpecGuard == InitGuard /\ [][NextGuard]_vars

\* React runs a scheduled effect and the router commits a replace
SpecGuardFair == SpecGuard /\ WF_vars(RunEffect) /\ WF_vars(ReplaceCommit)

\* C7: AuthGuard issues a redirect only when the session is resolved: to the
\* login screen exactly when there is no user outside the (auth) group, to the
\* (tabs) app exactly when there is a user inside it; while the session is
\* unknown it issues none and renders the loading view, not its children.
GuardRedirectsOnlyWhenResolved ==
    /\ isLoading => AuthGuardView = "ActivityIndicator"
    /\ last = "effect" =>
          /\ before.isLoading => redirect = "none"
          /\ redirect = "/(auth)/login" <=>
                (~before.isLoading /\ before.user = Null /\ before.segments # "(auth)")
          /\ redirect = "/(tabs)" <=>
                (~before.isLoading /\ before.user # Null /\ before.segments = "(auth)")
          /\ redirect \in {"none", "/(auth)/login", "/(tabs)"}

\* C7 witness: the effect sent a logged-in user from the (auth) group to (tabs)
RedirectedToTabs ==
    /\ last = "effect"
    /\ redirect = "/(tabs)"
    /\ pendingNav = "/(tabs)"
    /\ user \in MobileUsers

\* no effect is scheduled and no replace is in flight
Quiescent == ~effectPending /\ pendingNav = "none"

\* an authenticated user is outside the (auth) group, an unauthenticated one inside
Settled ==
    /\ user # Null => segments # "(auth)"
    /\ user = Null => segments = "(auth)"

\* C8: the redirect check runs again after every change of session state or
\* location: whenever nothing is scheduled and the session is resolved the user
\* is where the session state puts them, and after the last login, logout or
\* navigation step the redirects stop for good.
GuardSettles ==
    /\ []((Quiescent /\ ~isLoading) => Settled)
    /\ <>[]Quiescent

\* C8 witness: after logins, logouts and navigation a committed redirect left the
\* logged-out user inside the (auth) group with nothing more to run
SettledAfterRedirect ==
    /\ steps >= 3
    /\ last = "effect"
    /\ before.segments = "(auth)"
    /\ user = Null
    /\ ~isLoading
    /\ Quiescent
    /\ Settled

\* ------------------------------------------------------------------------
\* Agenda.tsx / Estoque: which doctor record is the logged-in user
\* ------------------------------------------------------------------------
\* a field that is missing from a record (undefined)
Absent == "<undefined>"

\* the outcome of calling a method on undefined
TypeError == "<TypeError>"

\* String.prototype.toLowerCase on the strings of the model
toLowerCase(str) ==
    CASE str = "A@X.com" -> "a@x.com"
      [] str = "Ana" -> "ana"
      [] str = "ANA" -> "ana"
      [] str = "Bia" -> "bia"
      [] OTHER -> str

LowerNoChaining(str) == IF str = Absent THEN TypeError ELSE toLowerCase(str)

\* str?.toLowerCase()
OptLower(str) == IF str = Absent THEN Absent ELSE toLowerCase(str)

\* d.email?.toLowerCase() === user.email?.toLowerCase() ||
\* d.name?.toLowerCase() === user.name?.toLowerCase()
FieldsMatch(d, u) ==
    LET dEmail == OptLower(d.email)
        uEmail == OptLower(u.email)
        dName == OptLower(d.name)
        uName == OptLower(u.name)
    IN  IF dEmail = TypeError \/ uEmail = TypeError THEN "throw"
        ELSE IF dEmail = uEmail THEN "true"
        ELSE IF dName = TypeError \/ uName = TypeError THEN "throw"
        ELSE IF dName = uName THEN "true"
        ELSE "false"

\* Array.prototype.find with the predicate above, from index i on: the first
\* record the predicate accepts, undefined when it accepts none
RECURSIVE Find(_, _, _)
Find(list, u, i) ==
    IF i > Len(list) THEN [threw |-> FALSE, match |-> Undefined]
    ELSE LET r == FieldsMatch(list[i], u)
         IN  IF r = "true" THEN [threw |-> FALSE, match |-> list[i]]
             ELSE IF r = "throw" THEN [threw |-> TRUE, match |-> Undefined]
             ELSE Find(list, u, i + 1)

\* const isAdmin = user?.role === 'admin' || user?.permissions?.includes('all')
isAdmin == user # Null /\ (user.role = "admin" \/ "all" \in user.permissions)

\* the logged-in staff accounts: name and email are case variants of one person
MatchUsers ==
    { [email |-> e, name |-> n, role |-> "doctor", permissions |-> {"agenda", "estoque"}] :
        e \in {"a@x.com", "A@X.com"}, n \in {"Ana", "ANA"} }
    \cup { [email |-> "a@x.com", name |-> "Ana", role |-> "admin", permissions |-> {"all"}] }

\* the values a doctor record may carry (email is optional in the doctor form)
DoctorEmails == {Absent, "a@x.com", "A@X.com", "b@x.com"}

DoctorNames == {Absent, "Ana", "ANA", "Bia"}

DoctorIds == <<"d1", "d2", "d3", "d4">>

\* the doctor lists doctorsAPI.getAll() may return
DoctorLists ==
    UNION { { [i \in 1..n |-> [id |-> DoctorIds[i], email |-> e[i], name |-> m[i]]] :
                e \in [1..n -> DoctorEmails], m \in [1..n -> DoctorNames] } :
            n \in 0..MaxDoctors }

\* Agenda: doctorsAPI.getAll().then(res => {...}).catch(() => {})
AgendaMatch ==
    /\ last = "start"
    /\ ~isAdmin
    /\ LET found == Find(doctors, user, 1)
       IN  /\ myDoctorId' = IF ~found.threw /\ found.match # Undefined
                            THEN found.match.id ELSE myDoctorId
           /\ before' = found
    /\ last' = "agendaMatch"
    /\ UNCHANGED <<doctors, currentDoctor, user, steps>>
    /\ UNCHANGED <<layoutState, authState, guardState, adminState>>

\* Agenda: doctorsAPI.getAll() rejects and the catch swallows it
AgendaLookupFails ==
    /\ last = "start"
    /\ ~isAdmin
    /\ before' = [threw |-> FALSE, match |-> Undefined]
    /\ last' = "agendaLookupFailed"
    /\ UNCHANGED <<doctors, myDoctorId, currentDoctor, user, steps>>
    /\ UNCHANGED <<layoutState, authState, guardState, adminState>>

\* Estoque: useEffect(() => {...}, [user, doctors]) once the doctors are loaded
EstoqueMatch ==
    /\ last = "start"
    /\ LET found == IF user # Null /\ Len(doctors) > 0
                    THEN Find(doctors, user, 1)
                    ELSE [threw |-> FALSE, match |-> currentDoctor]
       IN  /\ currentDoctor' = IF found.threw THEN currentDoctor ELSE found.match
           /\ before' = found
    /\ last' = "estoqueMatch"
    /\ UNCHANGED <<doctors, myDoctorId, user, steps>>
    /\ UNCHANGED <<layoutState, authState, guardState, adminState>>

InitMatch ==
    /\ user \in MatchUsers
    /\ doctors \in DoctorLists
    /\ myDoctorId = "null"
    /\ currentDoctor = Null
    /\ LayoutMounted
    /\ AdminIdle
    /\ AuthIdle
    /\ GuardIdle
    /\ steps = 0
    /\ before = <<>>
    /\ last = "start"

NextMatch ==
    \/ AgendaMatch
    \/ AgendaLookupFails
    \/ EstoqueMatch

SpecMatch == InitMatch /\ [][NextMatch]_vars

\* the record has the email / the name of the user, compared case-insensitively
HasEmailOf(d, u) ==
    d.email # Absent /\ u.email # Absent /\ toLowerCase(d.email) = toLowerCase(u.email)

HasNameOf(d, u) ==
    d.name # Absent /\ u.name # Absent /\ toLowerCase(d.name) = toLowerCase(u.name)

MatchRan == last \in {"agendaMatch", "estoqueMatch"}

\* C9: email has precedence over name: if some doctor has the user's email, the
\* match returned in Agenda and in Estoque is a doctor with that email, even
\* when an earlier doctor of the list matches by name only.
EmailTakesPrecedence ==
    (MatchRan /\ \E i \in 1..Len(doctors) : HasEmailOf(doctors[i], user)) =>
        \E i \in 1..Len(doctors) :
            /\ HasEmailOf(doctors[i], user)
            /\ last = "agendaMatch" => myDoctorId = doctors[i].id
            /\ last = "estoqueMatch" => currentDoctor = doctors[i]

\* C10: when no doctor has the user's email and none has the user's name, the
\* match is absent and no error is raised, also for doctor records without an
\* email or a name.
NoMatchGivesNoRecord ==
    (MatchRan /\ \A i \in 1..Len(doctors) :
                    ~HasEmailOf(doctors[i], user) /\ ~HasNameOf(doctors[i], user)) =>
        /\ ~before.threw
        /\ myDoctorId = "null"
        /\ currentDoctor \in {Null, Undefined}
        /\ Len(doctors) > 0 => before.match = Undefined

\* C10 witness: the match ran over doctor records without email or name, none of
\* which is the user
NoMatchAmongPartialRecords ==
    /\ MatchRan
    /\ Len(doctors) >= 2
    /\ doctors[1].email = Absent
    /\ doctors[2].name = Absent
    /\ \A i \in 1..Len(doctors) :
          ~HasEmailOf(doctors[i], user) /\ ~HasNameOf(doctors[i], user)
    /\ before.match = Undefined

\* ------------------------------------------------------------------------
\* services/socket: the real-time client, a registry of handlers per event name
\* ------------------------------------------------------------------------
\* a handler: the screen whose effect created it and the values its closure captured
Handler(owner, env) == [owner |-> owner, env |-> env]

\* the handlers hs without the first occurrence of h
RECURSIVE RemoveFirst(_, _)
RemoveFirst(hs, h) ==
    IF hs = <<>> THEN <<>>
    ELSE IF Head(hs) = h THEN Tail(hs)
    ELSE <<Head(hs)>> \o RemoveFirst(Tail(hs), h)

\* socketService.on(event, handler): the handler joins the listeners of the event
on(ls, event, h) == [ls EXCEPT ![event] = Append(@, h)]

\* the function socketService.on returns: it removes that handler and no other
unsubscribe(ls, event, h) == [ls EXCEPT ![event] = RemoveFirst(@, h)]

\* socketService.isConnected()
isConnected == socketUp

\* the handlers of owner among hs
OwnedBy(hs, owner) == SelectSeq(hs, LAMBDA h : h.owner = owner)

\* one socketService.on per event of events, all with the handler h
Subscribe(ls, events, h) ==
    [e \in DOMAIN ls |-> IF e \in events THEN on(ls, e, h)[e] ELSE ls[e]]

CleanupDropsEvent(ls, events, h) ==
    [e \in DOMAIN ls |-> IF e \in events THEN <<>> ELSE ls[e]]

\* the cleanup functions of these subscriptions, each called once
Cleanup(ls, events, h) ==
    [e \in DOMAIN ls |-> IF e \in events THEN unsubscribe(ls, e, h)[e] ELSE ls[e]]

\* ------------------------------------------------------------------------
\* the event handlers of Layout, Dashboard and Agenda
\* ------------------------------------------------------------------------
\* the events each screen subscribes to
LayoutEvents ==
    {"new_appointment", "new_patient", "appointment_cancelled", "appointment_updated"}

DashboardEvents ==
    {"new_patient", "new_appointment", "appointment_cancelled", "appointment_updated"}

AgendaEvents == {"new_appointment", "appointment_cancelled", "appointment_updated"}

\* todayFormatted, the dd-mm-yyyy text of the day of the render
todayFormatted == "today"

\* the state values a render of Agenda hands to the functions it creates
Closure(f, u, d, id) ==
    [filter |-> f, selectedUnit |-> u, showAllDates |-> d, myDoctorId |-> id]

\* const params: any = {} and the four conditional assignments of loadAppointments
Params(env) ==
    [status |-> IF env.filter # "todos" THEN env.filter ELSE Absent,
     unit_id |-> IF env.selectedUnit # "" THEN env.selectedUnit ELSE Absent,
     date |-> IF ~env.showAllDates THEN todayFormatted ELSE Absent,
     doctor_id |-> IF ~isAdmin /\ env.myDoctorId # "null" THEN env.myDoctorId ELSE Absent]

\* the values the handlers act on: st = [notifications, statsPending, requests, issued]
\* loadStats() up to its await: one more Promise.all in flight
loadStats(st) == [st EXCEPT !.statsPending = @ + 1]

loadAppointmentsNoWait(env, st) ==
    [st EXCEPT !.requests = Append(@, [seq |-> st.issued + 1, params |-> Params(env)]),
               !.issued = @ + 1]

\* loadAppointments() of the render with closure env, up to its await
loadAppointments(env, st) ==
    IF ~isAdmin /\ env.myDoctorId = "null" THEN st
    ELSE [st EXCEPT !.requests = Append(@, [seq |-> st.issued + 1, params |-> Params(env)]),
                    !.issued = @ + 1]

\* the body of a Layout handler: the entry is put in front of the feed
LayoutHandler(type, data, clock, st) ==
    [st EXCEPT !.notifications = Push(@, Notif(type, data, clock))]

\* one handler called with the event
Invoke(h, type, data, clock, st) ==
    CASE h.owner = "Layout" -> LayoutHandler(type, data, clock, st)
      [] h.owner = "Dashboard" -> loadStats(st)
      [] h.owner = "Agenda" -> loadAppointments(h.env, st)

\* the client calls every handler registered for the event, in order of registration
RECURSIVE FanOut(_, _, _, _, _)
FanOut(hs, type, data, clock, st) ==
    IF hs = <<>> THEN st
    ELSE FanOut(Tail(hs), type, data, clock, Invoke(Head(hs), type, data, clock, st))

\* the backend emits an event and the connected client dispatches it
Emit(type) ==
    /\ socketUp
    /\ delivered < MaxEvents
    /\ delivered' = delivered + 1
    /\ LET st == FanOut(listeners[type], type, Payload(delivered + 1), now,
                        [notifications |-> notifications, statsPending |-> statsPending,
                         requests |-> requests, issued |-> issued])
       IN  /\ notifications' = st.notifications
           /\ statsPending' = st.statsPending
           /\ requests' = st.requests
           /\ issued' = st.issued
    /\ before' = [listeners |-> listeners, notifications |-> notifications,
                  statsPending |-> statsPending, requests |-> requests, issued |-> issued,
                  closure |-> Closure(filter, selectedUnit, showAllDates, myDoctorId)]
    /\ last' = type
    /\ UNCHANGED <<feedRest, matchState, socketState, shellState, formsState, outside>>
    /\ UNCHANGED <<dashMounted, stats, dashLoading>>
    /\ UNCHANGED <<agendaMounted, filter, selectedUnit, showAllDates, appointments,
                   agendaLoading, lookupPending, subscribed>>

\* the events of the runs with all three screens: one every screen listens to and
\* one Agenda does not listen to
ChannelEvents == {"new_appointment", "new_patient"}

Event == \E type \in ChannelEvents : Emit(type)

\* an event Agenda listens to
AgendaEvent == \E type \in AgendaEvents : Emit(type)

\* the connection is established (first connection or reconnection)
ChannelUp ==
    /\ socketOpen
    /\ ~socketUp
    /\ socketUp' = TRUE
    /\ last' = "channelUp"
    /\ UNCHANGED <<listeners, socketOpen, before>>
    /\ UNCHANGED <<layoutState, matchState, shellState, dashState, agendaState, formsState,
                   outside>>

\* the connection drops
ChannelDown ==
    /\ socketUp
    /\ socketUp' = FALSE
    /\ last' = "channelDown"
    /\ UNCHANGED <<listeners, socketOpen, before>>
    /\ UNCHANGED <<layoutState, matchState, shellState, dashState, agendaState, formsState,
                   outside>>

\* ------------------------------------------------------------------------
\* Layout.tsx: the mount effect (connection, polling timer, subscriptions)
\* ------------------------------------------------------------------------
\* what the handlers of Layout capture: nothing that changes between renders
NoEnv == Null

\* return () => { clearInterval(interval); cleanups.forEach(c => c()); socketService.disconnect() }
LayoutCleanup(ls, timer) ==
    [listeners |-> Cleanup(ls, LayoutEvents, Handler("Layout", NoEnv)), interval |-> FALSE,
     socketOpen |-> FALSE]

\* a Layout instance mounts and its effect runs
LayoutMount ==
    /\ ~layoutMounted
    /\ layoutMounted' = TRUE
    /\ notifications' = <<>>
    /\ showNotifications' = FALSE
    /\ connected' = FALSE
    /\ socketOpen' = TRUE
    /\ interval' = TRUE
    /\ listeners' = Subscribe(listeners, LayoutEvents, Handler("Layout", NoEnv))
    /\ arrivals' = <<>>
    /\ before' = <<>>
    /\ last' = "layoutMount"
    /\ UNCHANGED <<now, delivered, ticks, socketUp>>
    /\ UNCHANGED <<matchState, dashState, agendaState, formsState, outside>>

\* the Layout instance unmounts and the cleanup of its effect runs
LayoutUnmount ==
    /\ layoutMounted
    /\ layoutMounted' = FALSE
    /\ LET done == LayoutCleanup(listeners, interval)
       IN  /\ listeners' = done.listeners
           /\ interval' = done.interval
           /\ socketOpen' = done.socketOpen
    /\ socketUp' = FALSE
    /\ before' = <<>>
    /\ notifications' = <<>>
    /\ showNotifications' = FALSE
    /\ connected' = FALSE
    /\ arrivals' = <<>>
    /\ last' = "layoutUnmount"
    /\ UNCHANGED <<now, delivered, ticks>>
    /\ UNCHANGED <<matchState, dashState, agendaState, formsState, outside>>

PollStatusSticky(prev, status) == prev \/ status

\* the value the timer callback passes to setConnected
PollStatus(prev, status) == status

\* setInterval(() => { setConnected(socketService.isConnected()) }, 2000) fires
PollTick ==
    /\ interval
    /\ connected' = PollStatus(connected, isConnected)
    /\ before' = [connected |-> connected, isConnected |-> isConnected]
    /\ last' = "poll"
    /\ UNCHANGED <<layoutMounted, interval>>
    /\ UNCHANGED <<layoutState, matchState, socketState, dashState, agendaState, formsState,
                   outside>>

\* ------------------------------------------------------------------------
\* Dashboard.tsx: Dashboard
\* ------------------------------------------------------------------------
\* return () => { cleanup1(); cleanup2(); cleanup3(); cleanup4() }
DashboardCleanup(ls) == Cleanup(ls, DashboardEvents, Handler("Dashboard", NoEnv))

\* a Dashboard instance mounts: loadStats() and the four subscriptions
DashboardMount ==
    /\ ~dashMounted
    /\ dashMounted' = TRUE
    /\ statsPending' = loadStats([statsPending |-> 0]).statsPending
    /\ stats' = NoStats
    /\ dashLoading' = TRUE
    /\ listeners' = Subscribe(listeners, DashboardEvents, Handler("Dashboard", NoEnv))
    /\ before' = <<>>
    /\ last' = "dashboardMount"
    /\ UNCHANGED <<socketOpen, socketUp>>
    /\ UNCHANGED <<layoutState, matchState, shellState, agendaState, formsState, outside>>

\* the Dashboard instance unmounts; what its pending calls do later reaches no screen
DashboardUnmount ==
    /\ dashMounted
    /\ dashMounted' = FALSE
    /\ statsPending' = 0
    /\ stats' = NoStats
    /\ dashLoading' = TRUE
    /\ listeners' = DashboardCleanup(listeners)
    /\ before' = <<>>
    /\ last' = "dashboardUnmount"
    /\ UNCHANGED <<socketOpen, socketUp>>
    /\ UNCHANGED <<layoutState, matchState, shellState, agendaState, formsState, outside>>

\* ------------------------------------------------------------------------
\* Agenda.tsx
\* ------------------------------------------------------------------------
\* the options of the status select and of the unit select
Filters == {"todos", "agendado", "concluido", "cancelado"}

Units == {"", "u1"}

\* arr without its i-th element
RemoveAt(arr, i) == SubSeq(arr, 1, i - 1) \o SubSeq(arr, i + 1, Len(arr))

\* loadAppointments() called by a render with closure env
Load(env) == loadAppointments(env, [requests |-> requests, issued |-> issued])

SubscriptionEffectNoCleanup(ls, old, env) ==
    Subscribe(ls, AgendaEvents, Handler("Agenda", env))

\* the subscription effect re-runs: the cleanup of its last run, then three new handlers
SubscriptionEffect(ls, old, env) ==
    Subscribe(Cleanup(ls, AgendaEvents, Handler("Agenda", old)), AgendaEvents,
              Handler("Agenda", env))

\* an Agenda instance mounts and its three effects run
AgendaMount ==
    /\ ~agendaMounted
    /\ issued < MaxRequests
    /\ agendaMounted' = TRUE
    /\ filter' = "todos"
    /\ selectedUnit' = ""
    /\ showAllDates' = FALSE
    /\ myDoctorId' = "null"
    /\ appointments' = NoAppointments
    /\ agendaLoading' = TRUE
    /\ lookupPending' = ~isAdmin
    /\ LET env == Closure("todos", "", FALSE, "null")
           st == loadAppointments(env, [requests |-> <<>>, issued |-> issued])
       IN  /\ requests' = st.requests
           /\ issued' = st.issued
           /\ subscribed' = env
           /\ listeners' = Subscribe(listeners, AgendaEvents, Handler("Agenda", env))
    /\ before' = <<>>
    /\ last' = "agendaMount"
    /\ UNCHANGED <<socketOpen, socketUp, doctors, currentDoctor>>
    /\ UNCHANGED <<layoutState, shellState, dashState, formsState, outside>>

\* the Agenda instance unmounts; what its pending calls do later reaches no screen
AgendaUnmount ==
    /\ agendaMounted
    /\ agendaMounted' = FALSE
    /\ listeners' = Cleanup(listeners, AgendaEvents, Handler("Agenda", subscribed))
    /\ subscribed' = Null
    /\ requests' = <<>>
    /\ lookupPending' = FALSE
    /\ before' = <<>>
    /\ filter' = "todos"
    /\ selectedUnit' = ""
    /\ showAllDates' = FALSE
    /\ myDoctorId' = "null"
    /\ appointments' = NoAppointments
    /\ agendaLoading' = TRUE
    /\ writes' = SelectSeq(writes, LAMBDA w : w.screen # "Agenda")
    /\ last' = "agendaUnmount"
    /\ UNCHANGED <<socketOpen, socketUp, issued, doctors, currentDoctor, estoque, equipe>>
    /\ UNCHANGED <<layoutState, shellState, dashState, outside>>

\* a filter, the unit or the date scope changes: Agenda renders again, the effect
\* of lines 34-36 calls loadAppointments and the subscription effect runs again
Rerender(f, u, d, name) ==
    /\ agendaMounted
    /\ issued < MaxRequests
    /\ filter' = f
    /\ selectedUnit' = u
    /\ showAllDates' = d
    /\ LET env == Closure(f, u, d, myDoctorId)
           st == Load(env)
       IN  /\ requests' = st.requests
           /\ issued' = st.issued
           /\ subscribed' = env
           /\ listeners' = SubscriptionEffect(listeners, subscribed, env)
    /\ before' = <<>>
    /\ last' = name
    /\ UNCHANGED <<socketOpen, socketUp, agendaMounted, appointments, agendaLoading,
                   lookupPending>>
    /\ UNCHANGED <<layoutState, matchState, shellState, dashState, formsState, outside>>

\* onChange of the status select
SetFilter == \E f \in Filters \ {filter} : Rerender(f, selectedUnit, showAllDates, "setFilter")

\* onChange of the unit select
SetSelectedUnit ==
    \E u \in Units \ {selectedUnit} : Rerender(filter, u, showAllDates, "setSelectedUnit")

\* onClick of the date toggle
SetShowAllDates == Rerender(filter, selectedUnit, ~showAllDates, "setShowAllDates")

\* onClick of 'Atualizar'
Refresh ==
    /\ agendaMounted
    /\ issued < MaxRequests
    /\ LET st == Load(Closure(filter, selectedUnit, showAllDates, myDoctorId))
       IN  /\ requests' = st.requests
           /\ issued' = st.issued
    /\ last' = "refresh"
    /\ UNCHANGED <<agendaMounted, filter, selectedUnit, showAllDates, appointments,
                   agendaLoading, lookupPending, subscribed, before>>
    /\ UNCHANGED <<layoutState, matchState, socketState, shellState, dashState, formsState,
                   outside>>

\* doctorsAPI.getAll() of the mount effect resolves: setMyDoctorId(match.id) when a
\* record matches, and then the effect of lines 34-36 runs again (myDoctorId is one
\* of its dependencies) while the subscription effect does not
DoctorsResolved ==
    /\ agendaMounted
    /\ lookupPending
    /\ issued < MaxRequests
    /\ lookupPending' = FALSE
    /\ LET found == Find(doctors, user, 1)
       IN  IF ~found.threw /\ found.match # Undefined /\ found.match.id # myDoctorId
           THEN /\ myDoctorId' = found.match.id
                /\ LET st == Load(Closure(filter, selectedUnit, showAllDates, found.match.id))
                   IN  /\ requests' = st.requests
                       /\ issued' = st.issued
           ELSE UNCHANGED <<myDoctorId, requests, issued>>
    /\ last' = "doctorsResolved"
    /\ UNCHANGED <<agendaMounted, filter, selectedUnit, showAllDates, appointments,
                   agendaLoading, subscribed, before, doctors, currentDoctor>>
    /\ UNCHANGED <<layoutState, socketState, shellState, dashState, formsState, outside>>

\* doctorsAPI.getAll() of the mount effect rejects: .catch(() => {})
DoctorsLookupFailed ==
    /\ agendaMounted
    /\ lookupPending
    /\ lookupPending' = FALSE
    /\ last' = "doctorsLookupFailed"
    /\ UNCHANGED <<agendaMounted, filter, selectedUnit, showAllDates, appointments,
                   agendaLoading, requests, issued, subscribed, before>>
    /\ UNCHANGED <<layoutState, matchState, socketState, shellState, dashState, formsState,
                   outside>>

SetAppointmentsIfNewer(shown, req) == IF req.seq > shown.seq THEN req ELSE shown

\* setAppointments(response.data): the list shown is the response to the request req
SetAppointments(shown, req) == req

\* the i-th call in flight resolves: setAppointments(response.data), setLoading(false)
AppointmentsLoaded ==
    /\ agendaMounted
    /\ \E i \in 1..Len(requests) :
          /\ appointments' = SetAppointments(appointments, requests[i])
          /\ requests' = RemoveAt(requests, i)
          /\ before' = [appointments |-> appointments, response |-> requests[i]]
    /\ agendaLoading' = FALSE
    /\ last' = "appointmentsLoaded"
    /\ UNCHANGED <<agendaMounted, filter, selectedUnit, showAllDates, issued, lookupPending,
                   subscribed>>
    /\ UNCHANGED <<layoutState, matchState, socketState, shellState, dashState, formsState,
                   outside>>

\* the i-th call in flight rejects: toast.error, setLoading(false)
AppointmentsFailed ==
    /\ agendaMounted
    /\ \E i \in 1..Len(requests) :
          /\ requests' = RemoveAt(requests, i)
    /\ agendaLoading' = FALSE
    /\ before' = <<>>
    /\ last' = "appointmentsFailed"
    /\ UNCHANGED <<agendaMounted, filter, selectedUnit, showAllDates, appointments, issued,
                   lookupPending, subscribed>>
    /\ UNCHANGED <<layoutState, matchState, socketState, shellState, dashState, formsState,
                   outside>>

\* ------------------------------------------------------------------------
\* the admin client with its real-time channel
\* ------------------------------------------------------------------------
\* the staff accounts of the runs: an administrator and a doctor
RealtimeUsers ==
    { [email |-> "b@x.com", name |-> "Bia", role |-> "admin", permissions |-> {"all"}],
      [email |-> "a@x.com", name |-> "Ana", role |-> "doctor", permissions |-> {"agenda"}] }

\* the doctor list of the backend: with and without a record of the doctor Ana
RealtimeDoctors ==
    { <<[id |-> "d1", email |-> "b@x.com", name |-> "Bia"]>>,
      <<[id |-> "d1", email |-> "b@x.com", name |-> "Bia"],
        [id |-> "d2", email |-> "a@x.com", name |-> "Ana"]>> }

InitAdmin ==
    /\ myDoctorId = "null"
    /\ currentDoctor = Null
    /\ LayoutMounted
    /\ AdminIdle
    /\ AuthIdle
    /\ GuardIdle
    /\ steps = 0
    /\ before = <<>>
    /\ last = "start"

\* the three screens of an administrator, mounting and unmounting under events
InitRealtime ==
    /\ user \in {u \in RealtimeUsers : u.role = "admin"}
    /\ doctors = <<>>
    /\ InitAdmin

NextRealtime ==
    \/ LayoutMount
    \/ LayoutUnmount
    \/ PollTick
    \/ ChannelUp
    \/ ChannelDown
    \/ Event
    \/ DashboardMount
    \/ DashboardUnmount
    \/ AgendaMount
    \/ AgendaUnmount
    \/ SetFilter
    \/ SetSelectedUnit
    \/ SetShowAllDates

SpecRealtime == InitRealtime /\ [][NextRealtime]_vars

\* Agenda of an administrator or of a doctor with its requests and no event
InitAgenda ==
    /\ user \in RealtimeUsers
    /\ doctors \in RealtimeDoctors
    /\ InitAdmin

NextAgenda ==
    \/ AgendaMount
    \/ AgendaUnmount
    \/ SetFilter
    \/ SetSelectedUnit
    \/ SetShowAllDates
    \/ Refresh
    \/ DoctorsResolved
    \/ DoctorsLookupFailed
    \/ AppointmentsLoaded
    \/ AppointmentsFailed

SpecAgenda == InitAgenda /\ [][NextAgenda]_vars

\* Agenda of an administrator or of a doctor inside a connected Layout, under events
NextAgendaLive ==
    \/ LayoutMount
    \/ ChannelUp
    \/ AgendaEvent
    \/ NextAgenda

SpecAgendaLive == InitAgenda /\ [][NextAgendaLive]_vars

\* the screens of the admin client
Screens == {"Layout", "Dashboard", "Agenda"}

\* the last step was taken by the screen: its mount, its unmount or one of its renders
StepOf(screen) ==
    CASE screen = "Layout" -> last' \in {"layoutMount", "layoutUnmount"}
      [] screen = "Dashboard" -> last' \in {"dashboardMount", "dashboardUnmount"}
      [] screen = "Agenda" -> last' \in {"agendaMount", "agendaUnmount", "setFilter",
                                         "setSelectedUnit", "setShowAllDates"}

\* the number of handlers the screen has registered for the event
Registered(screen, event) == Len(OwnedBy(listeners[event], screen))

\* C11: an event is fanned out: every mounted screen that listens to its name has
\* exactly one handler called, once (Layout gets one feed entry in front, Dashboard
\* starts one loadStats, Agenda starts one loadAppointments), and a step in which
\* a screen subscribes or unsubscribes leaves the handlers of the other screens
\* registered as they were.
EventFansOut ==
    [][ /\ delivered' = delivered + 1 =>
            /\ layoutMounted =>
                  /\ Registered("Layout", last') = 1
                  /\ notifications' = <<notifications'[1]>> \o notifications
                  /\ notifications'[1].type = last'
            /\ dashMounted =>
                  /\ Registered("Dashboard", last') = 1
                  /\ statsPending' = statsPending + 1
            /\ (agendaMounted /\ last' \in AgendaEvents) =>
                  /\ Registered("Agenda", last') = 1
                  /\ issued' = issued + 1
                  /\ Len(requests') = Len(requests) + 1
            /\ (agendaMounted /\ last' \notin AgendaEvents) =>
                  /\ Registered("Agenda", last') = 0
                  /\ UNCHANGED <<requests, issued>>
        /\ \A screen \in Screens : \A event \in EventTypes :
              OwnedBy(listeners'[event], screen) # OwnedBy(listeners[event], screen)
                  => StepOf(screen)
      ]_vars

\* C11 witness: after Agenda unsubscribed and subscribed again, a second
\* new_appointment reached the handlers of all three screens, once each
FannedOutToThreeScreens ==
    /\ last = "new_appointment"
    /\ delivered = 2
    /\ layoutMounted /\ dashMounted /\ agendaMounted
    /\ subscribed.filter # "todos"
    /\ Len(before.listeners["new_appointment"]) = 3
    /\ Len(notifications) = Len(before.notifications) + 1
    /\ statsPending = before.statsPending + 1
    /\ issued = before.issued + 1

\* the events the screen subscribes to
EventsOf(screen) ==
    CASE screen = "Layout" -> LayoutEvents
      [] screen = "Dashboard" -> DashboardEvents
      [] screen = "Agenda" -> AgendaEvents

Mounted(screen) ==
    CASE screen = "Layout" -> layoutMounted
      [] screen = "Dashboard" -> dashMounted
      [] screen = "Agenda" -> agendaMounted

\* C12: a screen that is not mounted has no handler registered, and Layout's
\* polling timer runs only while Layout is mounted, so an event or a poll tick
\* changes no state of an unmounted screen; a mounted screen has exactly one
\* handler for each event it listens to and none for the others, also after
\* Agenda's subscription effect has run again.
TeardownReleasesAll ==
    /\ [](\A screen \in Screens : \A event \in EventTypes :
            Registered(screen, event) =
                IF Mounted(screen) /\ event \in EventsOf(screen) THEN 1 ELSE 0)
    /\ [](interval <=> layoutMounted)
    /\ [][ (delivered' = delivered + 1 \/ last' = "poll") =>
              /\ ~layoutMounted => UNCHANGED <<notifications, showNotifications, connected>>
              /\ ~dashMounted => UNCHANGED statsPending
              /\ ~agendaMounted => UNCHANGED <<agendaState, myDoctorId>>
         ]_vars

\* C12 witness: Agenda was mounted, re-rendered or not, and unmounted; a later
\* new_appointment reached the two other screens and left Agenda as it was
EventAfterAgendaUnmount ==
    /\ last = "new_appointment"
    /\ ~agendaMounted
    /\ issued >= 1
    /\ before.issued = issued
    /\ requests = <<>>
    /\ Len(before.listeners["new_appointment"]) = 2
    /\ Len(notifications) = Len(before.notifications) + 1
    /\ statsPending = before.statsPending + 1

\* C15: the status Layout displays starts as disconnected, changes only when the
\* polling timer fires, and then takes the value isConnected() returns at that
\* tick, so after a disconnection the first tick shows disconnected; the tick
\* can always run while the timer does (nothing is raised).
StatusFollowsPoll ==
    /\ [][ /\ last' = "layoutMount" => ~connected'
           /\ last' = "poll" => connected' = isConnected
           /\ (layoutMounted /\ layoutMounted' /\ connected' # connected) => last' = "poll"
         ]_vars
    /\ [](interval => ENABLED PollTick)

\* C15 witness: the status showed connected, the channel dropped, and the next
\* poll tick of the mounted Layout showed disconnected
PollShowedDisconnect ==
    /\ last = "poll"
    /\ layoutMounted
    /\ before.connected
    /\ ~before.isConnected
    /\ ~connected

\* C16: while Agenda is mounted, for an administrator and for a user whose doctor
\* id is resolved, every delivered new_appointment, appointment_cancelled or
\* appointment_updated event starts one appointmentsAPI.getAll request whose
\* parameters are those of the screen's current filter, unit, date scope and
\* doctor id.
EventRefetchesCurrentView ==
    [][ (/\ delivered' = delivered + 1
         /\ last' \in AgendaEvents
         /\ agendaMounted
         /\ isAdmin \/ myDoctorId # "null") =>
            requests' = Append(requests,
                [seq |-> issued + 1,
                 params |-> Params(Closure(filter, selectedUnit, showAllDates, myDoctorId))])
      ]_vars

\* the parameters a request started by the current render carries
CurrentParams == Params(Closure(filter, selectedUnit, showAllDates, myDoctorId))

\* C19: appointment fetches are neither sequenced nor cancelled: whichever
\* response arrives sets the displayed list, whatever request it answers and
\* whatever is shown, so the response that arrives last is the one displayed.
LastArrivalIsDisplayed ==
    [][ last' = "appointmentsLoaded" =>
            \E i \in 1..Len(requests) :
                /\ appointments' = requests[i]
                /\ requests' = RemoveAt(requests, i)
      ]_vars

\* C19 witness: every request has completed, the response to the request of the
\* current filters was shown, and the response to an earlier request with other
\* parameters arrived after it and is what the screen displays
StaleResponseDisplayed ==
    /\ last = "appointmentsLoaded"
    /\ agendaMounted
    /\ requests = <<>>
    /\ before.appointments.seq > appointments.seq
    /\ before.appointments.params = CurrentParams
    /\ appointments.params # CurrentParams
    /\ appointments = before.response

\* ------------------------------------------------------------------------
\* Dashboard.tsx (second half): Estoque
\* ------------------------------------------------------------------------
\* what the item form can hold
NewItems == {BlankItem, [name |-> "Luva", quantity |-> 2, unit |-> "caixa", min_quantity |-> 1]}

\* the item lists inventoryAPI.getAll() may return
ItemLists ==
    {<<>>} \cup {<<[id |-> "i1", name |-> "Luva", quantity |-> q]>> : q \in {0, MaxQuantity + 1}}

\* the doctor lists doctorsAPI.getAll() may return to Estoque
EstoqueDoctors == {<<>>} \cup RealtimeDoctors

\* a value is truthy: neither null nor undefined (for records), not '' (for strings)
Present(v) == v # Null /\ v # Undefined

\* the effect on [user, doctors]: the match replaces currentDoctor when there is a
\* user and the list is not empty
MatchEffect(u, ds, cd) ==
    IF u # Null /\ Len(ds) > 0
    THEN LET found == Find(ds, u, 1) IN IF found.threw THEN cd ELSE found.match
    ELSE cd

\* a write request in flight: the body sent, and the id of the path or the render
\* whose functions its continuation calls
Write(screen, kind, data, env) == [screen |-> screen, kind |-> kind, data |-> data, env |-> env]

\* the writes and loads in flight stay within the bound
Budget == Len(writes) + estoque.loads < MaxPending

\* the options of the item select: the items with quantity > 0
ItemOptions == {estoque.items[i].id : i \in {j \in 1..Len(estoque.items) : estoque.items[j].quantity > 0}}

CanSendChecksStock(m, its) ==
    /\ m.item_id # ""
    /\ \E i \in 1..Len(its) : its[i].id = m.item_id /\ its[i].quantity >= m.quantity

\* if (!newMovement.item_id) { toast.warning(...); return }
CanSend(m, its) == m.item_id # ""

MovementDataAlwaysDoctor(m, type, cd) ==
    [item_id |-> m.item_id, quantity |-> m.quantity, type |-> type, notes |-> m.notes,
     doctor_id |-> IF Present(cd) THEN cd.id ELSE Absent]

\* movementData, with doctor_id set for a 'saida' of a matched doctor
MovementData(m, type, cd) ==
    [item_id |-> m.item_id, quantity |-> m.quantity, type |-> type, notes |-> m.notes,
     doctor_id |-> IF type = "saida" /\ Present(cd) THEN cd.id ELSE Absent]

\* the rest of the state when only Estoque acts
EstoqueFrame ==
    /\ UNCHANGED <<layoutState, socketState, shellState, dashState, agendaState, equipe, outside>>
    /\ UNCHANGED myDoctorId

\* setState calls of Estoque that touch neither the lists nor the requests
EstoqueSet(next, name) ==
    /\ estoque.mounted
    /\ estoque' = next
    /\ before' = <<>>
    /\ last' = name
    /\ UNCHANGED <<writes, doctors, currentDoctor>>
    /\ EstoqueFrame

\* onClick of 'Novo Item' (under the overlay while a modal is shown) and of
\* 'Cancelar' in its modal
ToggleAddModal ==
    /\ ~estoque.showMovementModal
    /\ EstoqueSet([estoque EXCEPT !.showAddModal = ~@], "toggleAddModal")

\* onChange of the fields of the item form
EditNewItem ==
    /\ estoque.showAddModal
    /\ \E v \in NewItems \ {estoque.newItem} :
          EstoqueSet([estoque EXCEPT !.newItem = v], "editNewItem")

\* openMovementModal(type)
OpenMovementModal ==
    /\ ~estoque.showMovementModal
    /\ ~estoque.showAddModal
    /\ \E type \in {"entrada", "saida"} :
          EstoqueSet([estoque EXCEPT !.movementType = type, !.newMovement = BlankMovement,
                                     !.showMovementModal = TRUE], "openMovementModal")

\* onClick of 'Cancelar' in the movement modal
CloseMovementModal ==
    /\ estoque.showMovementModal
    /\ EstoqueSet([estoque EXCEPT !.showMovementModal = FALSE], "closeMovementModal")

\* onChange of the item select and of the quantity input
EditNewMovement ==
    /\ estoque.showMovementModal
    /\ \E id \in {""} \cup ItemOptions : \E q \in 1..MaxQuantity :
          /\ [item_id |-> id, quantity |-> q] #
                [item_id |-> estoque.newMovement.item_id, quantity |-> estoque.newMovement.quantity]
          /\ EstoqueSet([estoque EXCEPT !.newMovement.item_id = id, !.newMovement.quantity = q],
                        "editNewMovement")

\* handleAddItem up to its await
HandleAddItem ==
    /\ estoque.mounted
    /\ estoque.showAddModal
    /\ Budget
    /\ writes' = Append(writes, Write("Estoque", "create", estoque.newItem, NoEnv))
    /\ before' = <<>>
    /\ last' = "handleAddItem"
    /\ UNCHANGED <<estoque, doctors, currentDoctor>>
    /\ EstoqueFrame

\* handleMovement up to its await, or to the return of the required-field check
HandleMovement ==
    /\ estoque.mounted
    /\ estoque.showMovementModal
    /\ Budget
    /\ writes' = IF CanSend(estoque.newMovement, estoque.items)
                 THEN Append(writes, Write("Estoque", "addMovement",
                          MovementData(estoque.newMovement, estoque.movementType, currentDoctor),
                          NoEnv))
                 ELSE writes
    /\ before' = <<>>
    /\ last' = "handleMovement"
    /\ UNCHANGED <<estoque, doctors, currentDoctor>>
    /\ EstoqueFrame

\* what follows the await of a write of Estoque that the backend accepted
EstoqueAccepted ==
    /\ estoque.mounted
    /\ \E i \in 1..Len(writes) :
          /\ writes[i].screen = "Estoque"
          /\ writes' = RemoveAt(writes, i)
          /\ estoque' =
                IF writes[i].kind = "create"
                THEN [estoque EXCEPT !.showAddModal = FALSE, !.newItem = BlankItem,
                                     !.loads = @ + 1]
                ELSE [estoque EXCEPT !.showMovementModal = FALSE,
                                     !.newMovement = BlankMovement, !.loads = @ + 1]
          /\ before' = [kind |-> writes[i].kind]
    /\ last' = "estoqueAccepted"
    /\ UNCHANGED <<doctors, currentDoctor>>
    /\ EstoqueFrame

\* the catch of a write of Estoque: toast.error and nothing else
EstoqueRejected ==
    /\ estoque.mounted
    /\ \E i \in 1..Len(writes) :
          /\ writes[i].screen = "Estoque"
          /\ writes' = RemoveAt(writes, i)
          /\ before' = [kind |-> writes[i].kind]
    /\ last' = "estoqueRejected"
    /\ UNCHANGED <<estoque, doctors, currentDoctor>>
    /\ EstoqueFrame

\* setItems(itemsRes.data)
SetItems(shown, data) == data

\* loadData after Promise.all resolved: setItems, setDoctors, the effect on
\* [user, doctors], and setLoading(false)
DataLoaded ==
    /\ estoque.mounted
    /\ estoque.loads > 0
    /\ \E its \in ItemLists : \E ds \in EstoqueDoctors :
          /\ estoque' = [estoque EXCEPT !.items = SetItems(@, its), !.loading = FALSE,
                                        !.loads = @ - 1]
          /\ doctors' = ds
          /\ currentDoctor' = MatchEffect(user, ds, currentDoctor)
          /\ before' = [items |-> its, doctors |-> ds]
    /\ last' = "dataLoaded"
    /\ UNCHANGED writes
    /\ EstoqueFrame

\* loadData after Promise.all rejected: toast.error and setLoading(false)
DataFailed ==
    /\ estoque.mounted
    /\ estoque.loads > 0
    /\ estoque' = [estoque EXCEPT !.loading = FALSE, !.loads = @ - 1]
    /\ before' = <<>>
    /\ last' = "dataFailed"
    /\ UNCHANGED <<writes, doctors, currentDoctor>>
    /\ EstoqueFrame

\* the router shows no page yet
NoPage == ~estoque.mounted /\ ~equipe.mounted /\ ~agendaMounted

\* Estoque mounts: its useState values, and loadData() of the effect of line 117
EstoqueMount ==
    /\ NoPage
    /\ estoque' = [EstoqueIdle EXCEPT !.mounted = TRUE, !.loads = 1]
    /\ doctors' = <<>>
    /\ currentDoctor' = Null
    /\ before' = <<>>
    /\ last' = "estoqueMount"
    /\ UNCHANGED writes
    /\ EstoqueFrame

\* ------------------------------------------------------------------------
\* Equipe.tsx
\* ------------------------------------------------------------------------
\* setFormData({ name: '', email: '', password: '', ... }) of openModal()
BlankStaff == [name |-> "", email |-> "", password |-> ""]

\* setDoctorFormData({ name: '', specialty: '', unit_id: '', cro: '', ..., photo_base64: '' })
BlankDoctor == [name |-> "", specialty |-> "", unit_id |-> "", cro |-> "", photo_base64 |-> ""]

\* a staff form with every required field, and a doctor form with every required field
FullStaff == [name |-> "Caio", email |-> "c@x.com", password |-> "pw"]
FullDoctor ==
    [name |-> "Bia", specialty |-> "orto", unit_id |-> "u1", cro |-> "123", photo_base64 |-> "img"]

\* what the staff form can hold: complete, or with one required field empty
StaffForms ==
    {FullStaff} \cup {[FullStaff EXCEPT ![f] = ""] : f \in {"name", "email", "password"}}

\* what the doctor form can hold: complete, or with one required field empty
DoctorForms ==
    {FullDoctor} \cup
    {[FullDoctor EXCEPT ![f] = ""] : f \in {"name", "specialty", "unit_id", "cro", "photo_base64"}}

\* what Promise.all of loadData may resolve to: staff and doctors of the backend; the
\* doctor may have been stored without a photo
EquipeData ==
    { [staff |-> <<>>, doctors |-> <<>>],
      [staff |-> <<[id |-> "s1", name |-> "Caio", email |-> "c@x.com"]>>,
       doctors |-> <<[FullDoctor EXCEPT !.photo_base64 = ""] @@ [id |-> "d1"]>>],
      [staff |-> <<[id |-> "s1", name |-> "Caio", email |-> "c@x.com"]>>,
       doctors |-> <<FullDoctor @@ [id |-> "d1"]>>] }

\* the useState values of Equipe; loads counts the loadData calls in flight
EquipeOpened ==
    [mounted |-> TRUE, staff |-> <<>>, doctors |-> <<>>, loading |-> TRUE,
     showModal |-> FALSE, showDoctorModal |-> FALSE, editingStaff |-> Null,
     editingDoctor |-> Null, formData |-> BlankStaff, doctorFormData |-> BlankDoctor,
     loads |-> 1]

\* the rest of the state when only Equipe acts
EquipeFrame ==
    UNCHANGED <<layoutState, matchState, socketState, shellState, dashState, agendaState,
                estoque, outside>>

\* the writes and loads of Equipe in flight stay within the bound
EquipeBudget == Len(writes) + equipe.loads < MaxPending

\* Equipe mounts: its useState values, and loadData() of the effect of line 55
EquipeMount ==
    /\ NoPage
    /\ equipe' = EquipeOpened
    /\ before' = <<>>
    /\ last' = "equipeMount"
    /\ UNCHANGED writes
    /\ EquipeFrame

\* setState calls of Equipe that touch neither the lists nor the requests
EquipeSet(next, name) ==
    /\ equipe.mounted
    /\ equipe' = next
    /\ before' = <<>>
    /\ last' = name
    /\ UNCHANGED writes
    /\ EquipeFrame

\* no modal overlay covers the page
NoModal == ~equipe.showModal /\ ~equipe.showDoctorModal

\* openModal(staffMember?)
openModal ==
    /\ equipe.mounted
    /\ NoModal
    /\ \/ EquipeSet([equipe EXCEPT !.editingStaff = Null, !.formData = BlankStaff,
                                   !.showModal = TRUE], "openModal")
       \/ \E i \in 1..Len(equipe.staff) :
             EquipeSet([equipe EXCEPT !.editingStaff = equipe.staff[i],
                           !.formData = [name |-> equipe.staff[i].name,
                                         email |-> equipe.staff[i].email, password |-> ""],
                           !.showModal = TRUE], "openModal")

\* openDoctorModal(doctor?)
openDoctorModal ==
    /\ equipe.mounted
    /\ NoModal
    /\ \/ EquipeSet([equipe EXCEPT !.editingDoctor = Null, !.doctorFormData = BlankDoctor,
                                   !.showDoctorModal = TRUE], "openDoctorModal")
       \/ \E i \in 1..Len(equipe.doctors) :
             EquipeSet([equipe EXCEPT !.editingDoctor = equipe.doctors[i],
                           !.doctorFormData = [f \in DOMAIN BlankDoctor |-> equipe.doctors[i][f]],
                           !.showDoctorModal = TRUE], "openDoctorModal")

\* onClick of 'Cancelar' in either modal
CloseModal ==
    /\ equipe.mounted
    /\ ~NoModal
    /\ EquipeSet([equipe EXCEPT !.showModal = FALSE, !.showDoctorModal = FALSE], "closeModal")

\* onChange of the fields of the staff form
EditFormData ==
    /\ equipe.mounted
    /\ equipe.showModal
    /\ \E v \in StaffForms \ {equipe.formData} :
          EquipeSet([equipe EXCEPT !.formData = v], "editFormData")

\* onChange of the fields of the doctor form
EditDoctorFormData ==
    /\ equipe.mounted
    /\ equipe.showDoctorModal
    /\ \E v \in DoctorForms \ {equipe.doctorFormData} :
          EquipeSet([equipe EXCEPT !.doctorFormData = v], "editDoctorFormData")

StaffValidNoPassword(fd, editing) == fd.name # "" /\ fd.email # ""

\* the negation of the condition of line 118
StaffValid(fd, editing) ==
    ~(fd.name = "" \/ fd.email = "" \/ (~Present(editing) /\ fd.password = ""))

\* the negation of the conditions of lines 141 and 147
DoctorValid(fd) ==
    /\ ~(fd.name = "" \/ fd.specialty = "" \/ fd.unit_id = "" \/ fd.cro = "")
    /\ ~(fd.photo_base64 = "")

\* const updateData = { ...formData }; if (!updateData.password) delete updateData.password
UpdateData(fd) == IF fd.password = "" THEN [fd EXCEPT !.password = Absent] ELSE fd

\* a handler of Equipe up to its await (send), or to the return of its check
EquipeSubmit(send, write, name) ==
    /\ equipe.mounted
    /\ EquipeBudget
    /\ writes' = IF send THEN Append(writes, write) ELSE writes
    /\ before' = <<>>
    /\ last' = name
    /\ UNCHANGED equipe
    /\ EquipeFrame

\* handleSubmit
handleSubmit ==
    /\ equipe.mounted
    /\ equipe.showModal
    /\ EquipeSubmit(StaffValid(equipe.formData, equipe.editingStaff),
          IF Present(equipe.editingStaff)
          THEN Write("Equipe", "staff.update", UpdateData(equipe.formData),
                     [id |-> equipe.editingStaff.id])
          ELSE Write("Equipe", "staff.create", equipe.formData, NoEnv),
          "handleSubmit")

\* handleDoctorSubmit
handleDoctorSubmit ==
    /\ equipe.mounted
    /\ equipe.showDoctorModal
    /\ EquipeSubmit(DoctorValid(equipe.doctorFormData),
          IF Present(equipe.editingDoctor)
          THEN Write("Equipe", "doctor.update", equipe.doctorFormData,
                     [id |-> equipe.editingDoctor.id])
          ELSE Write("Equipe", "doctor.create", equipe.doctorFormData, NoEnv),
          "handleDoctorSubmit")

\* handleDelete(id): confirm() may be declined
handleDelete ==
    /\ equipe.mounted
    /\ NoModal
    /\ \E i \in 1..Len(equipe.staff) : \E confirmed \in BOOLEAN :
          EquipeSubmit(confirmed, Write("Equipe", "staff.delete", [id |-> equipe.staff[i].id], NoEnv),
                       "handleDelete")

\* handleDeleteDoctor(id): confirm() may be declined
handleDeleteDoctor ==
    /\ equipe.mounted
    /\ NoModal
    /\ \E i \in 1..Len(equipe.doctors) : \E confirmed \in BOOLEAN :
          EquipeSubmit(confirmed, Write("Equipe", "doctor.delete", [id |-> equipe.doctors[i].id], NoEnv),
                       "handleDeleteDoctor")

AfterWriteNoReload(eq, kind) ==
    CASE kind \in {"staff.create", "staff.update"} -> [eq EXCEPT !.showModal = FALSE]
      [] kind \in {"doctor.create", "doctor.update"} -> [eq EXCEPT !.showDoctorModal = FALSE]
      [] OTHER -> eq

\* what follows the await of a write of Equipe: the modal of the form closes and
\* loadData() is called
AfterWrite(eq, kind) ==
    CASE kind \in {"staff.create", "staff.update"} ->
            [eq EXCEPT !.showModal = FALSE, !.loads = @ + 1]
      [] kind \in {"doctor.create", "doctor.update"} ->
            [eq EXCEPT !.showDoctorModal = FALSE, !.loads = @ + 1]
      [] OTHER -> [eq EXCEPT !.loads = @ + 1]

\* a write of Equipe the backend accepted
EquipeAccepted ==
    /\ equipe.mounted
    /\ \E i \in 1..Len(writes) :
          /\ writes[i].screen = "Equipe"
          /\ writes' = RemoveAt(writes, i)
          /\ equipe' = AfterWrite(equipe, writes[i].kind)
          /\ before' = [kind |-> writes[i].kind]
    /\ last' = "equipeAccepted"
    /\ EquipeFrame

\* the catch of a write of Equipe: toast.error and nothing else
EquipeRejected ==
    /\ equipe.mounted
    /\ \E i \in 1..Len(writes) :
          /\ writes[i].screen = "Equipe"
          /\ writes' = RemoveAt(writes, i)
          /\ before' = [kind |-> writes[i].kind]
    /\ last' = "equipeRejected"
    /\ UNCHANGED equipe
    /\ EquipeFrame

\* loadData after Promise.all resolved: setStaff, setDoctors, setLoading(false)
EquipeLoaded ==
    /\ equipe.mounted
    /\ equipe.loads > 0
    /\ \E data \in EquipeData :
          /\ equipe' = [equipe EXCEPT !.staff = data.staff, !.doctors = data.doctors,
                                      !.loading = FALSE, !.loads = @ - 1]
          /\ before' = data
    /\ last' = "equipeLoaded"
    /\ UNCHANGED writes
    /\ EquipeFrame

\* loadData after Promise.all rejected: toast.error and setLoading(false)
EquipeFailed ==
    /\ equipe.mounted
    /\ equipe.loads > 0
    /\ equipe' = [equipe EXCEPT !.loading = FALSE, !.loads = @ - 1]
    /\ before' = <<>>
    /\ last' = "equipeFailed"
    /\ UNCHANGED writes
    /\ EquipeFrame

\* ------------------------------------------------------------------------
\* Agenda.tsx: status updates
\* ------------------------------------------------------------------------
\* the rows the displayed list may hold: the backend chooses their status
AppointmentRows ==
    { [id |-> "a1", status |-> st] : st \in {"agendado", "concluido", "cancelado"} }

\* what the user may type in the prompt 'Valor cobrado (R$):'
PromptTexts == {"50", "12.5", "12,50", "", "abc"}

\* NaN, and an amount in cents
NaN == [nan |-> TRUE]
Amount(cents) == [cents |-> cents]

\* parseFloat(value): the longest numeric prefix of the text, NaN when there is none
parseFloat(text) ==
    CASE text = "50" -> Amount(5000)
      [] text = "12.5" -> Amount(1250)
      [] text = "12,50" -> Amount(1200)
      [] OTHER -> NaN

\* the rest of the state when Agenda writes
AgendaWriteFrame ==
    UNCHANGED <<layoutState, matchState, socketState, shellState, dashState, estoque, equipe,
                outside>>

\* {apt.status === 'agendado' && (<div className="apt-actions">...)}
HasActions(apt) == apt.status = "agendado"

\* handleUpdateStatus(id, status, paidValue) up to its await; the continuation keeps
\* the loadAppointments of this render
handleUpdateStatus(id, status, paidValue) ==
    writes' = Append(writes,
        Write("Agenda", "appointment.update",
              [id |-> id, status |-> status, paid_value |-> paidValue],
              Closure(filter, selectedUnit, showAllDates, myDoctorId)))

\* onClick of 'Concluir' on a row of the displayed list: handleConcluir(apt); the
\* prompt returns the text, or null when it is dismissed
handleConcluir ==
    /\ agendaMounted
    /\ appointments # NoAppointments
    /\ issued + Len(writes) < MaxRequests
    /\ \E apt \in {a \in AppointmentRows : HasActions(a)} :
          \/ /\ \E text \in PromptTexts :
                   /\ handleUpdateStatus(apt.id, "concluido", parseFloat(text))
                   /\ before' = [apt |-> apt, text |-> text]
             /\ last' = "handleConcluir"
          \/ /\ UNCHANGED writes
             /\ before' = [apt |-> apt]
             /\ last' = "promptDismissed"
    /\ UNCHANGED agendaState
    /\ AgendaWriteFrame

\* onClick of 'Cancelar' on a row of the displayed list
Cancelar ==
    /\ agendaMounted
    /\ appointments # NoAppointments
    /\ issued + Len(writes) < MaxRequests
    /\ \E apt \in {a \in AppointmentRows : HasActions(a)} :
          /\ handleUpdateStatus(apt.id, "cancelado", Undefined)
          /\ before' = [apt |-> apt]
    /\ last' = "cancelar"
    /\ UNCHANGED agendaState
    /\ AgendaWriteFrame

\* the status update the backend accepted: toast.success and loadAppointments()
StatusUpdated ==
    /\ agendaMounted
    /\ \E i \in 1..Len(writes) :
          /\ writes[i].screen = "Agenda"
          /\ writes' = RemoveAt(writes, i)
          /\ LET st == loadAppointments(writes[i].env, [requests |-> requests, issued |-> issued])
             IN  /\ requests' = st.requests
                 /\ issued' = st.issued
          /\ before' = [kind |-> writes[i].kind]
    /\ last' = "statusUpdated"
    /\ UNCHANGED <<agendaMounted, filter, selectedUnit, showAllDates, appointments,
                   agendaLoading, lookupPending, subscribed, listeners, socketOpen, socketUp>>
    /\ UNCHANGED <<layoutState, matchState, shellState, dashState, estoque, equipe, outside>>

\* the catch of handleUpdateStatus: toast.error and nothing else
StatusRejected ==
    /\ agendaMounted
    /\ \E i \in 1..Len(writes) :
          /\ writes[i].screen = "Agenda"
          /\ writes' = RemoveAt(writes, i)
          /\ before' = [kind |-> writes[i].kind]
    /\ last' = "statusRejected"
    /\ UNCHANGED agendaState
    /\ AgendaWriteFrame

\* Agenda is the page the router shows
AgendaOpen == NoPage /\ AgendaMount

\* the admin client with one of its pages open: the forms, the writes and the loads
InitForms ==
    /\ user \in {u \in RealtimeUsers : u.role = "doctor"}
    /\ doctors \in {ds \in RealtimeDoctors : \E i \in 1..Len(ds) : ds[i].email = user.email}
    /\ InitAdmin

NextForms ==
    \/ EstoqueMount
    \/ ToggleAddModal
    \/ EditNewItem
    \/ OpenMovementModal
    \/ CloseMovementModal
    \/ EditNewMovement
    \/ HandleAddItem
    \/ HandleMovement
    \/ EstoqueAccepted
    \/ EstoqueRejected
    \/ DataLoaded
    \/ DataFailed
    \/ EquipeMount
    \/ openModal
    \/ openDoctorModal
    \/ CloseModal
    \/ EditFormData
    \/ EditDoctorFormData
    \/ handleSubmit
    \/ handleDoctorSubmit
    \/ handleDelete
    \/ handleDeleteDoctor
    \/ EquipeAccepted
    \/ EquipeRejected
    \/ EquipeLoaded
    \/ EquipeFailed
    \/ AgendaOpen
    \/ SetFilter
    \/ DoctorsResolved
    \/ AppointmentsLoaded
    \/ AppointmentsFailed
    \/ handleConcluir
    \/ Cancelar
    \/ StatusUpdated
    \/ StatusRejected

SpecForms == InitForms /\ [][NextForms]_vars

\* ------------------------------------------------------------------------
\* the forms: required fields, stock, re-fetch after a write, attribution
\* ------------------------------------------------------------------------
\* the required fields of the doctor form
DoctorRequired == {"name", "specialty", "unit_id", "cro", "photo_base64"}

\* the last write request that was sent
Sent == writes'[Len(writes')]

\* C13: a submission that fails the required-field check sends no request and
\* changes no state (the modal stays open, the form data is kept, no reload starts):
\* handleMovement without an item, handleSubmit without a name or an email, or
\* without a password when creating, handleDoctorSubmit without one of its five
\* required fields; an empty password when editing is no failure
FailedCheckChangesNothing ==
    [][ /\ (last' = "handleMovement" /\ estoque.newMovement.item_id = "") =>
              UNCHANGED <<writes, estoque, doctors, currentDoctor>>
        /\ ( /\ last' = "handleSubmit"
             /\ \/ equipe.formData.name = ""
                \/ equipe.formData.email = ""
                \/ (equipe.editingStaff = Null /\ equipe.formData.password = "") ) =>
              UNCHANGED <<writes, equipe>>
        /\ ( /\ last' = "handleSubmit"
             /\ equipe.formData.name # ""
             /\ equipe.formData.email # ""
             /\ equipe.editingStaff # Null ) =>
              /\ Len(writes') = Len(writes) + 1
              /\ writes' = Append(writes, Sent)
              /\ Sent.kind = "staff.update"
        /\ (last' = "handleDoctorSubmit" /\ \E f \in DoctorRequired : equipe.doctorFormData[f] = "") =>
              UNCHANGED <<writes, equipe>> ]_vars

\* C13 witness: handleDoctorSubmit ran on a form that lacks only the photo; the
\* modal is still open with the form and nothing was sent or loaded
SubmitWithoutPhoto ==
    /\ last = "handleDoctorSubmit"
    /\ equipe.mounted
    /\ equipe.showDoctorModal
    /\ equipe.doctorFormData = [FullDoctor EXCEPT !.photo_base64 = ""]
    /\ equipe.loads = 0
    /\ writes = <<>>

\* C14: handleMovement with a selected item sends the request whatever the
\* quantity is relative to the quantity the item list shows; each accepted movement
\* starts a reload, and a reload leaves in the item list what the backend returned
NoStockCheck ==
    [][ /\ (last' = "handleMovement" /\ estoque.newMovement.item_id # "") =>
              /\ Len(writes') = Len(writes) + 1
              /\ writes' = Append(writes, Sent)
              /\ Sent.kind = "addMovement"
              /\ Sent.data.item_id = estoque.newMovement.item_id
              /\ Sent.data.quantity = estoque.newMovement.quantity
        /\ (last' = "estoqueAccepted" /\ before'.kind = "addMovement") =>
              estoque'.loads = estoque.loads + 1
        /\ last' = "dataLoaded" => estoque'.items = before'.items ]_vars

\* C14 witness: two 'saida' movements of 1 and 2 against an item of quantity 3 are
\* both in flight
TwoWithdrawalsSent ==
    /\ last = "handleMovement"
    /\ estoque.mounted
    /\ Len(estoque.items) = 1
    /\ estoque.items[1].quantity = 3
    /\ Len(writes) = 2
    /\ \A i \in 1..2 :
          /\ writes[i].kind = "addMovement"
          /\ writes[i].data.type = "saida"
          /\ writes[i].data.item_id = estoque.items[1].id
          /\ writes[i].data.quantity = i

\* the kinds of write of each screen
Accepted == {"estoqueAccepted", "equipeAccepted", "statusUpdated"}
Rejected == {"estoqueRejected", "equipeRejected", "statusRejected"}

\* C18: an accepted write starts exactly one re-fetch of its screen; a rejected write
\* is gone without a retry and without a re-fetch, and leaves the lists, the modals
\* and the forms as they were; the displayed lists change only when a fetch answers
WriteThenRefetch ==
    [][ /\ last' \in Accepted \cup Rejected =>
              /\ Len(writes') = Len(writes) - 1
              /\ \E i \in 1..Len(writes) : writes' = RemoveAt(writes, i)
        /\ last' = "estoqueAccepted" =>
              estoque'.loads = estoque.loads + 1 /\ estoque'.items = estoque.items
        /\ last' = "equipeAccepted" =>
              /\ equipe'.loads = equipe.loads + 1
              /\ equipe'.staff = equipe.staff
              /\ equipe'.doctors = equipe.doctors
        /\ last' = "statusUpdated" =>
              /\ Len(requests') = Len(requests) + 1
              /\ issued' = issued + 1
              /\ appointments' = appointments
        /\ last' \in Rejected =>
              UNCHANGED <<estoque, equipe, doctors, currentDoctor, agendaState>>
        /\ (estoque.mounted /\ estoque'.items # estoque.items) => last' = "dataLoaded"
        /\ (equipe.mounted /\ (equipe'.staff # equipe.staff \/ equipe'.doctors # equipe.doctors)) =>
              last' = "equipeLoaded"
        /\ (agendaMounted /\ appointments' # appointments) => last' = "appointmentsLoaded" ]_vars

\* C18 witness: the creation of a staff member was rejected; the modal is open with
\* the form that was sent, nothing is in flight and no reload was started
RejectedKeepsForm ==
    /\ last = "equipeRejected"
    /\ before.kind = "staff.create"
    /\ equipe.showModal
    /\ equipe.editingStaff = Null
    /\ equipe.formData = FullStaff
    /\ equipe.loads = 0
    /\ writes = <<>>

\* C20: a movement request carries doctor_id exactly when its type is 'saida' and a
\* doctor record is matched to the user, and then it is the id of that record; the
\* matched record is one that the match accepts for the user
WithdrawalAttribution ==
    /\ [][ (last' = "handleMovement" /\ writes' # writes) =>
              /\ Sent.data.type = estoque.movementType
              /\ (Sent.data.doctor_id # Absent) <=>
                    (estoque.movementType = "saida" /\ currentDoctor \notin {Null, Undefined})
              /\ Sent.data.doctor_id # Absent => Sent.data.doctor_id = currentDoctor.id ]_vars
    /\ [](currentDoctor \notin {Null, Undefined} => FieldsMatch(currentDoctor, user) = "true")

\* C20 witness: the doctor Ana, matched to her record, sent a 'saida'
WithdrawalByDoctor ==
    /\ last = "handleMovement"
    /\ Len(writes) = 1
    /\ writes[1].data.type = "saida"
    /\ currentDoctor \notin {Null, Undefined}
    /\ currentDoctor.email = user.email
    /\ writes[1].data.doctor_id = currentDoctor.id

\* ------------------------------------------------------------------------
\* Layout.tsx: the menu
\* ------------------------------------------------------------------------
\* const allMenuItems = [...]; an item without a permission has it undefined
allMenuItems ==
    << [path |-> "/", label |-> "Inicio", permission |-> Absent],
       [path |-> "/agenda", label |-> "Agenda", permission |-> "agenda"],
       [path |-> "/financeiro", label |-> "Financeiro", permission |-> "financeiro"],
       [path |-> "/estoque", label |-> "Estoque", permission |-> "estoque"],
       [path |-> "/pacientes", label |-> "Pacientes", permission |-> "pacientes"],
       [path |-> "/documentos", label |-> "Documentos", permission |-> "documentos"],
       [path |-> "/equipe", label |-> "Equipe", permission |-> "equipe"],
       [path |-> "/clinicas", label |-> "Clinicas", permission |-> "configuracoes"],
       [path |-> "/doutores", label |-> "Doutores", permission |-> "configuracoes"],
       [path |-> "/servicos", label |-> "Servicos", permission |-> "configuracoes"] >>

\* the permission sets of the users of the menu
MenuPermissions == SUBSET {"all", "agenda", "estoque", "financeiro", "configuracoes"}

\* the users a Layout may render for: nobody, users with a permission list, and
\* users whose record has no permissions field
MenuUsers ==
    {Null}
    \cup { [email |-> "u@x.com", name |-> "U", role |-> r, permissions |-> ps] :
              r \in {"admin", "doctor", "receptionist"}, ps \in MenuPermissions }
    \cup { [email |-> "u@x.com", name |-> "U", role |-> r] : r \in {"admin", "doctor"} }

\* user.permissions?.includes(perm): undefined (falsy) for a record without the field
includes(u, perm) == "permissions" \in DOMAIN u /\ perm \in u.permissions

hasPermissionRoleOnly(u, perm) ==
    IF perm = Absent \/ perm = "" THEN TRUE
    ELSE IF u = Null THEN FALSE
    ELSE u.role = "admin"

\* hasPermission(perm), as the filter of line 166 reads its result
hasPermission(u, perm) ==
    IF perm = Absent \/ perm = "" THEN TRUE
    ELSE IF u = Null THEN FALSE
    ELSE IF u.role = "admin" \/ includes(u, "all") THEN TRUE
    ELSE includes(u, perm)

\* Array.prototype.filter with hasPermission(item.permission)
RECURSIVE Filter(_, _, _)
Filter(list, u, i) ==
    IF i > Len(list) THEN <<>>
    ELSE IF hasPermission(u, list[i].permission)
         THEN <<list[i]>> \o Filter(list, u, i + 1)
         ELSE Filter(list, u, i + 1)

\* const menuItems = allMenuItems.filter(item => hasPermission(item.permission))
menuItems(u) == Filter(allMenuItems, u, 1)

\* Layout renders for the user of useAuth(): the sidebar shows menuItems
LayoutRender ==
    /\ \E u \in MenuUsers :
          /\ user' = u
          /\ before' = menuItems(u)
    /\ last' = "layoutRender"
    /\ UNCHANGED <<layoutState, authState, guardState, matchState, adminState, steps>>

InitMenu ==
    /\ user \in MenuUsers
    /\ LayoutMounted
    /\ AdminIdle
    /\ AuthIdle
    /\ GuardIdle
    /\ MatchIdle
    /\ steps = 0
    /\ before = <<>>
    /\ last = "start"

NextMenu ==
    \/ LayoutRender

SpecMenu == InitMenu /\ [][NextMenu]_vars

\* the item is among the rendered ones
Shown(item) == \E i \in 1..Len(before) : before[i] = item

\* C21: an item of the menu is shown if and only if it has no permission tag, or
\* the user is not null and has the role admin, or the permission set of the user
\* holds 'all' or the tag of the item; 'Inicio' is shown to everyone, and a user with
\* neither the role admin nor 'all' sees no item whose tag their set lacks; the items
\* keep the order of the menu
MenuGating ==
    last = "layoutRender" =>
        /\ \A i \in 1..Len(allMenuItems) :
              LET item == allMenuItems[i]
              IN  Shown(item) <=>
                     \/ item.permission = Absent
                     \/ (user # Null /\ user.role = "admin")
                     \/ /\ user # Null
                        /\ "permissions" \in DOMAIN user
                        /\ ("all" \in user.permissions \/ item.permission \in user.permissions)
        /\ Shown(allMenuItems[1])
        /\ \A i \in 1..Len(before) : \A j \in 1..Len(before) :
              (i < j) => \E m, n \in 1..Len(allMenuItems) :
                            m < n /\ allMenuItems[m] = before[i] /\ allMenuItems[n] = before[j]

\* C21 witness: a receptionist with the permissions agenda and estoque sees Inicio,
\* Agenda and Estoque and nothing else
ReceptionistSeesOwnItems ==
    /\ last = "layoutRender"
    /\ user # Null
    /\ user.role = "receptionist"
    /\ "permissions" \in DOMAIN user
    /\ user.permissions = {"agenda", "estoque"}
    /\ Len(before) = 3
    /\ before[2].path = "/agenda"
    /\ before[3].path = "/estoque"

\* ------------------------------------------------------------------------
\* Agenda.tsx: the loading state
\* ------------------------------------------------------------------------
\* every API call of Agenda that is in flight completes: the doctor lookup of the
\* mount effect and each appointmentsAPI.getAll
SpecAgendaFair ==
    /\ SpecAgenda
    /\ WF_vars(DoctorsResolved \/ DoctorsLookupFailed)
    /\ WF_vars(AppointmentsLoaded \/ AppointmentsFailed)

\* C22: after Agenda mounts, and with every API call completing, the screen leaves
\* its loading state (or is left) for every kind of user
AgendaLoadingEnds == agendaMounted ~> (~agendaLoading \/ ~agendaMounted)

\* ------------------------------------------------------------------------
\* AuthProvider: the end of the unknown state
\* ------------------------------------------------------------------------
\* React runs the mount effect of a mounted provider
SpecAuthFair == SpecAuth /\ WF_vars(AuthMount)

\* C23: after the provider mounts, the session leaves the unknown state (loading
\* becomes false) whatever localStorage holds
SessionResolutionEnds == loading ~> ~loading

\* ------------------------------------------------------------------------
\* Agenda.tsx: the requests of a doctor
\* ------------------------------------------------------------------------
\* Agenda of a user who is not an administrator, inside a connected Layout: filters,
\* 'Atualizar', status updates and events
InitDoctorAgenda ==
    /\ user \in {u \in RealtimeUsers : u.role # "admin" /\ "all" \notin u.permissions}
    /\ doctors \in RealtimeDoctors
    /\ InitAdmin

NextDoctorAgenda ==
    \/ LayoutMount
    \/ ChannelUp
    \/ AgendaEvent
    \/ AgendaMount
    \/ SetFilter
    \/ Refresh
    \/ DoctorsResolved
    \/ DoctorsLookupFailed
    \/ AppointmentsLoaded
    \/ AppointmentsFailed
    \/ handleConcluir
    \/ Cancelar
    \/ StatusUpdated
    \/ StatusRejected

SpecDoctorAgenda == InitDoctorAgenda /\ [][NextDoctorAgenda]_vars

\* the doctor id the lookup of the mount effect resolves for the user, if any
ResolvedId ==
    LET found == Find(doctors, user, 1)
    IN  IF found.threw \/ found.match = Undefined THEN "null" ELSE found.match.id

\* C24: for a user who is not an administrator, every appointment-list request
\* carries doctor_id equal to the id resolved for the user, and none is issued
\* before the id is resolved (nor when none is): in flight or answered and shown
DoctorRequestsCarryOwnId ==
    /\ [](~isAdmin =>
            /\ \A i \in 1..Len(requests) :
                  /\ myDoctorId # "null"
                  /\ requests[i].params.doctor_id = myDoctorId
                  /\ requests[i].params.doctor_id = ResolvedId
            /\ appointments # NoAppointments =>
                  (myDoctorId # "null" /\ appointments.params.doctor_id = ResolvedId)
            /\ (agendaMounted /\ myDoctorId = "null") => requests = <<>>)
    /\ [][ (~isAdmin /\ myDoctorId' = "null") => issued' = issued ]_vars
    /\ [][ (~isAdmin /\ issued' # issued) =>
              /\ issued' = issued + 1
              /\ Len(requests') = Len(requests) + 1
              /\ requests'[Len(requests')].params.doctor_id = ResolvedId ]_vars

\* C24 witness: after the id of the doctor Ana was resolved and a filter was
\* changed, an event made Agenda issue a request, and it carries her id
DoctorEventRequest ==
    /\ ~isAdmin
    /\ agendaMounted
    /\ last \in AgendaEvents
    /\ myDoctorId = "d2"
    /\ filter # "todos"
    /\ Len(requests) > Len(before.requests)
    /\ requests[Len(requests)].params.doctor_id = "d2"
    /\ requests[Len(requests)].params.status = filter

\* ------------------------------------------------------------------------
\* Layout.tsx: the keys of the feed and the bell
\* ------------------------------------------------------------------------
\* C26: the ids of the entries of the feed are pairwise distinct at every point,
\* also for two events handled within the same millisecond
NotificationIdsDistinct ==
    \A i \in 1..Len(notifications) : \A j \in 1..Len(notifications) :
        i # j => notifications[i].id # notifications[j].id

\* C27: a click on the bell of the closed dropdown opens it and marks every entry
\* read (the badge count becomes 0); a click on the bell of the open dropdown closes
\* it and changes no entry; an entry that arrives is created unread, also while the
\* dropdown is open, and no step but the opening of the dropdown turns an entry read
BellMarksReadOnOpen ==
    [][ /\ (showNotifications' # showNotifications /\ ~showNotifications) =>
              /\ last' = "markAllRead"
              /\ unreadCount' = 0
              /\ Len(notifications') = Len(notifications)
        /\ (showNotifications' # showNotifications /\ showNotifications) =>
              /\ last' = "closeBell"
              /\ notifications' = notifications
        /\ last' \in EventTypes =>
              /\ ~notifications'[1].read
              /\ \A i \in 2..Len(notifications') : notifications'[i] = notifications[i - 1]
        /\ last' # "markAllRead" =>
              \A i \in 1..Len(notifications') :
                  notifications'[i].read =>
                      \E j \in 1..Len(notifications) : notifications[j] = notifications'[i] ]_vars

\* C27 witness: the dropdown was closed while the entry that arrived when it was
\* open is still unread, above an entry that the opening had marked read
ClosedWithUnreadArrival ==
    /\ last = "closeBell"
    /\ ~showNotifications
    /\ Len(notifications) = 2
    /\ ~notifications[1].read
    /\ notifications[2].read

\* ------------------------------------------------------------------------
\* AuthProvider: the session and its persisted copy
\* ------------------------------------------------------------------------
\* C25: at every point, after any sequence of starts, logins (accepted or rejected)
\* and logouts, a user that is not null has both items in localStorage, and the
\* stored user record is the serialization of the current user
SessionIsPersisted ==
    user # Null =>
        /\ storage.admin_token # NoItem
        /\ storage.admin_user # NoItem
        /\ storage.admin_user = JSONstringify(user)
        /\ JSONparses(storage.admin_user)
        /\ JSONparse(storage.admin_user) = user

\* C25 witness: a second login, as another user, was accepted for a session that
\* was already authenticated
ReloggedAsAnotherUser ==
    /\ last = "loginOk"
    /\ before.user # Null
    /\ user # Null
    /\ user # before.user
    /\ storage.admin_user = JSONstringify(user)


\* the amount a text typed in the prompt 'Valor cobrado (R$):' denotes, in cents, with
\* the decimal point or the decimal comma of pt-BR; NaN when it denotes none
Entered(text) ==
    CASE text = "50" -> Amount(5000)
      [] text = "12.5" -> Amount(1250)
      [] text = "12,50" -> Amount(1250)
      [] OTHER -> NaN

\* C28: Agenda issues a status update only for a row whose displayed status is
\* 'agendado', the new status is 'concluido' or 'cancelado', a 'concluido' update
\* carries the paid value entered in the prompt and a 'cancelado' update none, and
\* dismissing the prompt issues no request and changes no state
StatusUpdateRules ==
    [][/\ (last' \in {"handleConcluir", "cancelar"} /\ Len(writes') = Len(writes) + 1) =>
             /\ before'.apt.status = "agendado"
             /\ Sent.kind = "appointment.update"
             /\ Sent.data.id = before'.apt.id
             /\ Sent.data.status \in {"concluido", "cancelado"}
             /\ last' = "handleConcluir" =>
                   /\ Sent.data.status = "concluido"
                   /\ Sent.data.paid_value = Entered(before'.text)
             /\ last' = "cancelar" =>
                   /\ Sent.data.status = "cancelado"
                   /\ Sent.data.paid_value = Undefined
       /\ last' = "promptDismissed" =>
             UNCHANGED <<layoutState, authState, guardState, matchState, adminState, user>>
      ]_vars


\* ------------------------------------------------------------------------
\* Estoque: the matched doctor
\* ------------------------------------------------------------------------
\* C29: in Estoque, once all pending loads have completed, currentDoctor is the
\* result of matching the logged-in user against the most recently loaded doctor
\* list, and unset whenever that list holds no matching record
CurrentDoctorFollowsList ==
    (estoque.mounted /\ estoque.loads = 0) =>
        LET found == Find(doctors, user, 1)
        IN  IF Present(found.match) THEN currentDoctor = found.match
            ELSE ~Present(currentDoctor)


\* ------------------------------------------------------------------------
\* Dashboard.tsx (first half): the statistics
\* ------------------------------------------------------------------------
\* the bodies the four requests of loadStats may return
AppointmentsData == {<<>>, <<"a1", "a2">>}
FinancialData == {[total_revenue |-> 0], [total_revenue |-> 150]}
PatientsData == {<<>>, <<"p1">>}
StockItems == {[quantity |-> q, min_quantity |-> 1] : q \in 0..2}
InventoryData ==
    {<<>>} \cup {<<a>> : a \in StockItems}
    \cup {<<a, b>> : a \in StockItems, b \in {c \in StockItems : c.quantity = 1}}

\* the four requests of Promise.all
StatsRequests == {"appointments", "financial", "patients", "inventory"}

RECURSIVE lowStockStrict(_)
lowStockStrict(data) ==
    IF data = <<>> THEN 0
    ELSE (IF Head(data).quantity < Head(data).min_quantity THEN 1 ELSE 0)
         + lowStockStrict(Tail(data))

\* inventoryRes.data.filter((item) => item.quantity <= item.min_quantity).length
RECURSIVE lowStock(_)
lowStock(data) ==
    IF data = <<>> THEN 0
    ELSE (IF Head(data).quantity <= Head(data).min_quantity THEN 1 ELSE 0)
         + lowStock(Tail(data))

\* the object given to setStats
NewStats(appointmentsRes, financialRes, patientsRes, inventoryRes) ==
    [todayAppointments |-> Len(appointmentsRes),
     monthRevenue |-> financialRes.total_revenue,
     totalPatients |-> Len(patientsRes),
     lowStockItems |-> lowStock(inventoryRes)]

\* the rest of the state when a loadStats call settles
StatsFrame ==
    /\ UNCHANGED dashMounted
    /\ UNCHANGED <<layoutState, matchState, socketState, shellState, agendaState, formsState,
                   outside>>

\* loadStats after Promise.all resolved: setStats, and setLoading(false) of finally
StatsLoaded ==
    /\ dashMounted
    /\ statsPending > 0
    /\ statsPending' = statsPending - 1
    /\ \E a \in AppointmentsData : \E f \in FinancialData : \E p \in PatientsData :
       \E inv \in InventoryData :
          /\ stats' = NewStats(a, f, p, inv)
          /\ before' = [appointments |-> a, financial |-> f, patients |-> p, inventory |-> inv,
                        stats |-> stats]
    /\ dashLoading' = FALSE
    /\ last' = "statsLoaded"
    /\ StatsFrame

\* loadStats after Promise.all rejected, with the first request that failed: the
\* catch logs, and finally calls setLoading(false)
StatsFailed ==
    /\ dashMounted
    /\ statsPending > 0
    /\ statsPending' = statsPending - 1
    /\ \E failed \in StatsRequests : before' = [failed |-> failed, stats |-> stats]
    /\ dashLoading' = FALSE
    /\ last' = "statsFailed"
    /\ UNCHANGED stats
    /\ StatsFrame

\* Dashboard of an administrator under events, with its loads settling
NextDashboard ==
    \/ LayoutMount
    \/ ChannelUp
    \/ Event
    \/ DashboardMount
    \/ DashboardUnmount
    \/ StatsLoaded
    \/ StatsFailed

SpecDashboard == InitRealtime /\ [][NextDashboard]_vars

\* the number of items of an inventory whose quantity is at most min_quantity
LowItems(inv) == Cardinality({i \in 1..Len(inv) : inv[i].quantity <= inv[i].min_quantity})

\* C30: loadStats is all-or-nothing: when one of its four requests fails none of the
\* four statistics changes; when all succeed the four are replaced together, with
\* lowStockItems the number of inventory items whose quantity is less than or equal
\* to min_quantity; in both cases loading becomes false
LoadStatsAllOrNothing ==
    [][/\ last' = "statsFailed" =>
             /\ before'.failed \in StatsRequests
             /\ stats' = stats
             /\ ~dashLoading'
       /\ last' = "statsLoaded" =>
             /\ stats'.todayAppointments = Len(before'.appointments)
             /\ stats'.monthRevenue = before'.financial.total_revenue
             /\ stats'.totalPatients = Len(before'.patients)
             /\ stats'.lowStockItems = LowItems(before'.inventory)
             /\ ~dashLoading'
      ]_vars

\* C30 witness: a reload replaced all four statistics of an earlier load, and counted
\* an item whose quantity equals its min_quantity as low
AllFourReplaced ==
    /\ last = "statsLoaded"
    /\ before.stats # NoStats
    /\ stats.todayAppointments # before.stats.todayAppointments
    /\ stats.monthRevenue # before.stats.monthRevenue
    /\ stats.totalPatients # before.stats.totalPatients
    /\ stats.lowStockItems # before.stats.lowStockItems
    /\ \E i \in 1..Len(before.inventory) :
          before.inventory[i].quantity = before.inventory[i].min_quantity
    /\ ~dashLoading

====
